---- MODULE Spec2Model ----
(***************************************************************************)
(* Ouroboros supervisor runtime: the commit tools and the git lock         *)
(* (ouroboros/tools/git.py), the launcher's agent lifecycle loop           *)
(* (launcher.py), the desktop supervisor loop (server.py) and the Colab    *)
(* supervisor loop with its batch window (colab_launcher.py).              *)
(*                                                                         *)
(* Each subsystem has its own specification over its own variables; the    *)
(* variables of the other subsystems stay at their initial values.         *)
(***************************************************************************)
EXTENDS Integers, Sequences, FiniteSets, TLC

(***************************************************************************)
(* Bounds of the model.                                                    *)
(***************************************************************************)
MaxGitCalls == 5
NumLockProcs == 2
MaxLockClock == 7
MaxAgentStarts == 6
MaxLauncherClock == 5
MaxOwnerMsgs == 2
MaxEvents == 1
InitialTgOffset == 42
MaxColabMsgs == 2
MaxSendClock == 4
MaxColabClock == 36
MaxOversleep == 1
MaxPending == 2
MaxCommandMsgs == 2
MaxCommandSendClock == 0
MaxMailboxWrites == 3
MaxPidFiles == 2
MaxSyncCommits == 2
MaxEventQ == 2
StartEpoch == 100
MaxDiagClock == 10
MaxTickWork == 3
MaxDiagSec == 2
MaxCrashDelay == 1
MaxWatchClock == 62

(***************************************************************************)
(* State                                                                   *)
(***************************************************************************)
\* Commit tools (ouroboros/tools/git.py).
VARIABLES
    consecutive_test_failures, \* module global _consecutive_test_failures
    head,                      \* number of commits on the dev branch (HEAD)
    last_push_succeeded,       \* ctx.last_push_succeeded
    gitResult,                 \* string returned by the last commit tool call
    gitLockFile,               \* TRUE while locks/git.lock exists (held by the call)
    gitCalls,                  \* number of commit tool calls made so far
    gitLast                    \* record of the last call: inputs and the state before it

gitVars == <<consecutive_test_failures, head, last_push_succeeded, gitResult,
             gitLockFile, gitCalls, gitLast>>

\* Git lock (ouroboros/tools/git.py); time in ticks of 120 seconds.
VARIABLES
    lockNow,      \* the clock (ticks)
    lockExists,   \* locks/git.lock exists
    lockMtime,    \* its st_mtime
    lockPc,       \* per caller: "idle", "loop", "unlink", "open", "holding"
    lockDeadline, \* per caller: deadline of the running _acquire_git_lock
    lockTimeouts  \* per caller: TRUE once an acquire raised TimeoutError

lockVars == <<lockNow, lockExists, lockMtime, lockPc, lockDeadline, lockTimeouts>>

\* Launcher lifecycle loop (launcher.py); time in ticks of 30 seconds.
VARIABLES
    lpc,            \* lifecycle thread: "loop_head", "agent_running", "done"
    shutdown_event, \* _shutdown_event
    launcherAlive,  \* the launcher process has not exited
    launcherNow,    \* the clock (ticks)
    crash_times,    \* crash_times of agent_lifecycle_loop
    agentsStarted,  \* number of start_agent calls
    exit_code,      \* return code of the last agent that exited (-1: none yet)
    lastExit,       \* the last exit handled: whether shutdown was set, the starts so far
    panicAt         \* number of starts when an exit with code 99 was handled (-1: never)

launcherVars == <<lpc, shutdown_event, launcherAlive, launcherNow, crash_times,
                  agentsStarted, exit_code, lastExit, panicAt>>

\* Supervisor state shared by both supervisor loops (supervisor.* modules, state.json).
VARIABLES
    session_id,       \* state.json session_id (a fresh uuid is the next number)
    tg_offset,        \* state.json tg_offset
    workersAlive,     \* the worker processes are running
    kills,            \* number of kill_workers calls
    agent_busy,       \* _busy of the current chat agent
    chatThreads,      \* chat dispatch threads: [st: "started" | "running" | "done", text]
    injected,         \* texts passed to agent.inject_message, in order
    panicMsgs,        \* number of outgoing messages that start with the stop sign
    panic_flag,       \* state/panic_stop.flag exists
    lastSnapshot,     \* reason of the last persist_queue_snapshot ("" before any)
    snapAfterPanic,   \* a queue snapshot was written while the panic flag existed
    procExit,         \* exit code of the supervisor process (-1: running, -2: re-executed)
    safe_restart_ok,  \* what the last safe_restart call returned: "none", "ok", "refused"
    ownerRestart,     \* the last owner /restart handled: accepted, state before it
    evtRestartAccepted \* a restart_request event was accepted by safe_restart

supVars == <<session_id, tg_offset, workersAlive, kills, agent_busy, chatThreads, injected,
             panicMsgs, panic_flag, lastSnapshot, snapAfterPanic, procExit,
             safe_restart_ok, ownerRestart, evtRestartAccepted>>

\* Desktop supervisor loop (server.py, _run_supervisor) and the main thread.
VARIABLES
    spc,               \* supervisor thread: "tick", "drain", "steps", "updates", "stopped", "returned"
    crash_count,       \* crash_count of the main loop
    backoff,           \* seconds of backoff slept after the last tick (0 if it completed)
    restart_requested, \* _restart_requested
    eventQ,            \* the event bus
    bridgeQ,           \* owner messages queued in the chat bridge
    updates,           \* the list returned by bridge.get_updates, not yet handled
    ownerSent,         \* number of messages the owner has sent
    eventsPublished    \* number of events workers have published

serverVars == <<spc, crash_count, backoff, restart_requested, eventQ, bridgeQ, updates,
                ownerSent, eventsPublished>>

\* Colab supervisor loop (colab_launcher.py, main loop); time in ticks of 50 ms.
VARIABLES
    time_now,         \* time.time()
    inbox,            \* owner messages at Telegram: [text, at, viaMain, viaWindow, entries]
    offset,           \* offset of the main loop
    cpc,              \* main thread: "tick", "updates", "window", "wsleep", "wextras"
    cwake,            \* earliest time at which the current time.sleep returns
    cupdates,         \* updates of the main poll not yet handled (indices into inbox)
    wupdates,         \* _extra_updates not yet handled (indices into inbox)
    batch_start,      \* _batch_start
    batch_deadline,   \* _batch_deadline
    batched_texts,    \* _batched_texts
    batch_state,      \* _batch_state: the state loaded when the window opened
    batch_dirty,      \* _batch_state_dirty
    winOpen,          \* index of the message that opened the current window
    winMsgs,          \* indices of the messages whose texts are in _batched_texts
    winFirstPoll      \* time of the first poll of the current window (-1: none yet)

colabVars == <<time_now, inbox, offset, cpc, cwake, cupdates, wupdates, batch_start,
               batch_deadline, batched_texts, batch_state, batch_dirty, winOpen, winMsgs,
               winFirstPoll>>

\* Owner commands of both supervisor loops: state.json flags, the background
\* consciousness and the task queue (supervisor.state, supervisor.queue).
VARIABLES
    evolution_mode_enabled,       \* state.json evolution_mode_enabled
    bg_consciousness_enabled,     \* state.json bg_consciousness_enabled
    server_consciousness_running, \* _consciousness.is_running of server.py
    colab_consciousness_running,  \* _consciousness.is_running of colab_launcher.py
    PENDING,                      \* types of the pending tasks, in queue order
    statusReplies                 \* number of status texts sent to the owner

cmdVars == <<evolution_mode_enabled, bg_consciousness_enabled,
             server_consciousness_running, colab_consciousness_running, PENDING,
             statusReplies>>

\* Images in the Colab supervisor loop.
VARIABLES
    batched_image,    \* _batched_image is set
    photoNotices      \* number of "Photo received, but a task is in progress" notices

imgVars == <<batched_image, photoNotices>>

\* Per-task owner mailboxes (ouroboros/owner_inject.py, memory/owner_mailbox/).
VARIABLES
    owner_mailbox,    \* the file at each path: [exists, lines], a line is [text, msg_id]
    seen_ids,         \* the seen_ids set each task drains with
    msg_ids_used,     \* number of msg_ids handed out so far
    written,          \* per task, the messages written for it and not cleaned up since
    lastDrain         \* the last drain_owner_messages call: [task, with_seen, texts,
                      \* ids, odd], odd for an odd number of calls so far

mailVars == <<owner_mailbox, seen_ids, msg_ids_used, written, lastDrain>>

\* Single-instance PID lock (ouroboros/config.py, launcher.py main).
VARIABLES
    portalocker,   \* TRUE when the portalocker module was imported, FALSE for None
    pidPlatform,   \* "posix": unlink removes a name whose file is open; "nt": it fails
    PID_FILE,      \* the file the path APP_ROOT/ouroboros.pid names (0: no such file)
    filesCreated,  \* number of files created at that path so far
    lock_fd,       \* per instance, the file _lock_fd has open (0: None)
    osLock,        \* per instance, the file it holds the exclusive OS lock on (0: none)
    ipc            \* per instance: "off", "opened", "holding", "refused", "unlocked"

pidVars == <<portalocker, pidPlatform, PID_FILE, filesCreated, lock_fd, osLock, ipc>>

\* Protected files and the repository bootstrap (launcher.py).
VARIABLES
    REPO_DIR,      \* "absent", "partial" (exists without server.py) or "full"
    worktree,      \* per protected file, its content in REPO_DIR
    committed,     \* per protected file, its content in the HEAD commit
    sync_commits,  \* number of commits 'safety-sync: restore protected files from bundle'
    bootstrapped   \* bootstrap_repo has returned in this launch

syncVars == <<REPO_DIR, worktree, committed, sync_commits, bootstrapped>>

\* Main-loop diagnostics (colab_launcher.py); time in half seconds.
VARIABLES
    DIAG_HEARTBEAT_SEC,      \* configured interval in seconds (0: disabled)
    DIAG_SLOW_CYCLE_SEC,     \* configured threshold in seconds (0: disabled)
    diagNow,                 \* time.time()
    last_diag_heartbeat_ts,  \* _last_diag_heartbeat_ts
    supervisor_jsonl,        \* records appended to logs/supervisor.jsonl: [type, ts]
    lastTick                 \* the last loop iteration: [n, started, ended, poll_failed]

diagVars == <<DIAG_HEARTBEAT_SEC, DIAG_SLOW_CYCLE_SEC, diagNow, last_diag_heartbeat_ts,
              supervisor_jsonl, lastTick>>

\* Owner registration (colab_launcher.py): who the state file names as owner and
\* who sent each Telegram message.
VARIABLES
    owner_id,   \* st["owner_id"] of the state file (NoOwner: None)
    senders     \* senders[i]: msg["from"]["id"] of the i-th message, where recorded

ownerVars == <<owner_id, senders>>

\* Background consciousness around a chat dispatch (server.py, colab_launcher.py).
VARIABLES
    server_consciousness_paused, \* _consciousness of server.py is paused
    colab_consciousness_paused   \* _consciousness of colab_launcher.py is paused

pauseVars == <<server_consciousness_paused, colab_consciousness_paused>>

\* Direct-mode watchdog thread (colab_launcher.py); time in ticks of 30 seconds.
VARIABLES
    watchNow,          \* time.time()
    watchWake,         \* earliest time at which the watchdog's time.sleep(30) returns
    last_progress_ts,  \* _last_progress_ts of the current chat agent
    soft_warned,       \* soft_warned of _chat_watchdog_loop
    softNotices,       \* soft-timeout notices sent since the current task began
    stuckNotices,      \* "Task stuck" notices sent so far
    agentResets        \* number of reset_chat_agent calls

watchVars == <<watchNow, watchWake, last_progress_ts, soft_warned, softNotices,
               stuckNotices, agentResets>>

\* One supervisor tick, call by call (server.py _run_supervisor, colab_launcher.py
\* main loop).
VARIABLES
    tpc,        \* the call the loop is at: "head", "drain", "enforce", "enqueue",
                \* "assign", "persist", "poll", "route"
    tickLog,    \* the calls of the current tick that have returned, in order
    snapshotQ   \* the pending queue written by the last persist_queue_snapshot

tickVars == <<tpc, tickLog, snapshotQ>>

\* The subsystems added last, left alone by all the others.
extVars == <<diagVars, ownerVars, pauseVars, watchVars, tickVars>>

\* What the colab loop leaves alone when it registers the owner.
notColabOwner == <<gitVars, lockVars, launcherVars, serverVars, mailVars, pidVars,
                   diagVars, syncVars, pauseVars, watchVars, tickVars>>

\* What a supervisor leaves alone when it pauses or resumes its consciousness.
notServerPause == <<gitVars, lockVars, launcherVars, colabVars, imgVars, mailVars,
                    pidVars, diagVars, ownerVars, syncVars, watchVars, tickVars,
                    colab_consciousness_paused>>
notColabPause == <<gitVars, lockVars, launcherVars, serverVars, mailVars, pidVars,
                   diagVars, ownerVars, syncVars, watchVars, tickVars,
                   server_consciousness_paused>>

\* What each subsystem leaves alone.
notGit == <<lockVars, launcherVars, supVars, serverVars, colabVars, cmdVars, imgVars,
           mailVars, pidVars, extVars, syncVars>>
notLock == <<gitVars, launcherVars, supVars, serverVars, colabVars, cmdVars, imgVars,
           mailVars, pidVars, extVars, syncVars>>
notLauncher == <<gitVars, lockVars, supVars, serverVars, colabVars, cmdVars, imgVars,
           mailVars, pidVars, extVars>>
notServer == <<gitVars, lockVars, launcherVars, colabVars, imgVars, mailVars,
              pidVars, extVars, syncVars>>
notColab == <<gitVars, lockVars, launcherVars, serverVars, mailVars, pidVars, extVars, syncVars>>
notPidLock == <<gitVars, lockVars, launcherVars, supVars, serverVars, colabVars, cmdVars,
                imgVars, mailVars, syncVars, extVars>>
notSync == <<gitVars, lockVars, launcherVars, supVars, serverVars, colabVars, cmdVars,
             imgVars, mailVars, pidVars, extVars>>
\* What the watchdog thread and the chat agent's task leave alone, agent_busy
\* apart.
notWatch == <<gitVars, lockVars, launcherVars, serverVars, colabVars, cmdVars, imgVars,
              mailVars, pidVars, syncVars, diagVars, ownerVars, pauseVars, tickVars,
              session_id, tg_offset, workersAlive, kills, chatThreads, injected,
              panicMsgs, panic_flag, lastSnapshot, snapAfterPanic, procExit,
              safe_restart_ok, ownerRestart, evtRestartAccepted>>
notDiag == <<gitVars, lockVars, launcherVars, supVars, serverVars, colabVars, cmdVars,
             imgVars, mailVars, pidVars, syncVars, ownerVars, pauseVars, watchVars,
             tickVars>>

(***************************************************************************)
(* Main-loop diagnostics: colab_launcher.py                                *)
(***************************************************************************)
\* time.sleep(1.5) after a failed poll and time.sleep(0.5) of the idle loop, in
\* half seconds.
DIAG_POLL_ERROR_SLEEP == 3
DIAG_LOOP_SLEEP == 1

\* The diagnostics block at the end of an iteration that began at `started` and
\* reaches the block at `now_epoch`: the records it appends.
DiagRecords(started, now_epoch) ==
    (IF DIAG_SLOW_CYCLE_SEC > 0 /\ now_epoch - started >= 2 * DIAG_SLOW_CYCLE_SEC
     THEN <<[type |-> "main_loop_slow_cycle", ts |-> now_epoch]>> ELSE <<>>)
    \o
    (IF DIAG_HEARTBEAT_SEC > 0
        /\ now_epoch - last_diag_heartbeat_ts >= 2 * DIAG_HEARTBEAT_SEC
     THEN <<[type |-> "main_loop_heartbeat", ts |-> now_epoch]>> ELSE <<>>)

\* One iteration of the main loop whose poll succeeds: the work up to the
\* diagnostics block takes d half seconds, then the loop sleeps.
DiagTick(d) ==
    /\ diagNow + d + DIAG_LOOP_SLEEP <= StartEpoch + MaxDiagClock
    /\ supervisor_jsonl' = supervisor_jsonl \o DiagRecords(diagNow, diagNow + d)
    /\ last_diag_heartbeat_ts' =
          IF DIAG_HEARTBEAT_SEC > 0
             /\ (diagNow + d) - last_diag_heartbeat_ts >= 2 * DIAG_HEARTBEAT_SEC
          THEN diagNow + d ELSE last_diag_heartbeat_ts
    /\ lastTick' = [n |-> lastTick.n + 1, started |-> diagNow, ended |-> diagNow + d,
                    poll_failed |-> FALSE]
    /\ diagNow' = diagNow + d + DIAG_LOOP_SLEEP
    /\ UNCHANGED <<DIAG_HEARTBEAT_SEC, DIAG_SLOW_CYCLE_SEC, notDiag>>

\* One iteration whose poll raises after d half seconds: telegram_poll_error is
\* logged, the loop sleeps 1.5 s and continues with the next iteration.
DiagTickPollFails(d) ==
    /\ diagNow + d + DIAG_POLL_ERROR_SLEEP <= StartEpoch + MaxDiagClock
    /\ supervisor_jsonl' =
          Append(supervisor_jsonl, [type |-> "telegram_poll_error", ts |-> diagNow + d])
    /\ lastTick' = [n |-> lastTick.n + 1, started |-> diagNow,
                    ended |-> diagNow + d + DIAG_POLL_ERROR_SLEEP, poll_failed |-> TRUE]
    /\ diagNow' = diagNow + d + DIAG_POLL_ERROR_SLEEP
    /\ UNCHANGED <<DIAG_HEARTBEAT_SEC, DIAG_SLOW_CYCLE_SEC, last_diag_heartbeat_ts, notDiag>>

\* Diagnostics switched off, the loop not yet entered.
InitDiag ==
    /\ DIAG_HEARTBEAT_SEC = 0
    /\ DIAG_SLOW_CYCLE_SEC = 0
    /\ diagNow = StartEpoch
    /\ last_diag_heartbeat_ts = 0
    /\ supervisor_jsonl = <<>>
    /\ lastTick = [n |-> 0, started |-> 0, ended |-> 0, poll_failed |-> FALSE]

\* Any configuration _parse_int_cfg(minimum=0) can give.
InitDiagAny ==
    /\ DIAG_HEARTBEAT_SEC \in 0..MaxDiagSec
    /\ DIAG_SLOW_CYCLE_SEC \in 0..MaxDiagSec
    /\ diagNow = StartEpoch
    /\ last_diag_heartbeat_ts = 0
    /\ supervisor_jsonl = <<>>
    /\ lastTick = [n |-> 0, started |-> 0, ended |-> 0, poll_failed |-> FALSE]

NextDiag ==
    \/ \E d \in 0..MaxTickWork : DiagTick(d)
    \/ \E d \in 0..MaxTickWork : DiagTickPollFails(d)

\* st.get("owner_id") is None
NoOwner == -1

\* Telegram user ids: the human owner's, and another user's; NoSender stands for a
\* message without a `from`, which the main loop reads as user id 0.
OwnerUser == 1

OtherUser == 2

NoSender == 0

Users == {NoSender, OwnerUser, OtherUser}

\* The owner is registered and every message is the owner's.
InitOwner ==
    /\ owner_id = OwnerUser
    /\ senders = <<>>

\* The consciousness of a fresh process is not paused.
InitPause ==
    /\ server_consciousness_paused = FALSE
    /\ colab_consciousness_paused = FALSE

\* SOFT_TIMEOUT_SEC and HARD_TIMEOUT_SEC at their defaults of 600 and 1800
\* seconds, in ticks of 30 seconds.
SOFT_TIMEOUT_TICKS == 20
HARD_TIMEOUT_TICKS == 60

\* The watchdog thread has just been started; no task is running.
InitWatch ==
    /\ watchNow = 0 /\ watchWake = 1
    /\ last_progress_ts = 0
    /\ soft_warned = FALSE
    /\ softNotices = 0 /\ stuckNotices = 0 /\ agentResets = 0

\* The loop has not been entered; the queue snapshot is the restored queue.
InitTick ==
    /\ tpc = "head"
    /\ tickLog = <<>>
    /\ snapshotQ = <<>>

InitExt == InitDiag /\ InitOwner /\ InitPause /\ InitWatch /\ InitTick

\* Thirty seconds pass.
WatchTime ==
    /\ watchNow < MaxWatchClock
    /\ watchNow' = watchNow + 1
    /\ UNCHANGED <<watchWake, last_progress_ts, soft_warned, softNotices, stuckNotices,
                   agentResets, agent_busy, notWatch>>

\* The chat agent takes a task: _busy is set, the progress clock starts.
AgentBeginsTask ==
    /\ ~agent_busy
    /\ agent_busy' = TRUE
    /\ last_progress_ts' = watchNow
    /\ softNotices' = 0
    /\ UNCHANGED <<watchNow, watchWake, soft_warned, stuckNotices, agentResets,
                   notWatch>>

\* The running task makes progress (a tool round ends).
AgentProgress ==
    /\ agent_busy /\ last_progress_ts < watchNow
    /\ last_progress_ts' = watchNow
    /\ UNCHANGED <<watchNow, watchWake, soft_warned, softNotices, stuckNotices,
                   agentResets, agent_busy, notWatch>>

\* The running task ends: _busy is cleared.
AgentEndsTask ==
    /\ agent_busy
    /\ agent_busy' = FALSE
    /\ UNCHANGED <<watchVars, notWatch>>

\* A watchdog that does not remember its soft warning (the mutant of
\* WatchdogCheck).
WatchdogCheckWarnsEachTime ==
    /\ watchNow >= watchWake
    /\ watchWake' = watchNow + 1
    /\ LET idle_sec == watchNow - last_progress_ts
       IN  IF ~agent_busy
           THEN /\ soft_warned' = FALSE
                /\ UNCHANGED <<agent_busy, softNotices, stuckNotices, agentResets>>
           ELSE IF idle_sec >= HARD_TIMEOUT_TICKS
           THEN /\ stuckNotices' = stuckNotices + 1
                /\ agentResets' = agentResets + 1
                /\ agent_busy' = FALSE
                /\ soft_warned' = FALSE
                /\ UNCHANGED softNotices
           ELSE IF idle_sec >= SOFT_TIMEOUT_TICKS
           THEN /\ soft_warned' = TRUE
                /\ softNotices' = softNotices + 1
                /\ UNCHANGED <<agent_busy, stuckNotices, agentResets>>
           ELSE UNCHANGED <<agent_busy, soft_warned, softNotices, stuckNotices,
                            agentResets>>
    /\ UNCHANGED <<watchNow, last_progress_ts, notWatch>>

\* One pass of `while True` of _chat_watchdog_loop, once time.sleep(30) has
\* returned; the owner's chat id is in the state file. reset_chat_agent drops
\* the agent, and the agent created next is not busy.
WatchdogCheck ==
    /\ watchNow >= watchWake
    /\ watchWake' = watchNow + 1
    /\ LET idle_sec == watchNow - last_progress_ts
       IN  IF ~agent_busy
           THEN /\ soft_warned' = FALSE
                /\ UNCHANGED <<agent_busy, softNotices, stuckNotices, agentResets>>
           ELSE IF idle_sec >= HARD_TIMEOUT_TICKS
           THEN /\ stuckNotices' = stuckNotices + 1
                /\ agentResets' = agentResets + 1
                /\ agent_busy' = FALSE
                /\ soft_warned' = FALSE
                /\ UNCHANGED softNotices
           ELSE IF idle_sec >= SOFT_TIMEOUT_TICKS /\ ~soft_warned
           THEN /\ soft_warned' = TRUE
                /\ softNotices' = softNotices + 1
                /\ UNCHANGED <<agent_busy, stuckNotices, agentResets>>
           ELSE UNCHANGED <<agent_busy, soft_warned, softNotices, stuckNotices,
                            agentResets>>
    /\ UNCHANGED <<watchNow, last_progress_ts, notWatch>>

NextWatchdog ==
    WatchTime \/ AgentBeginsTask \/ AgentProgress \/ AgentEndsTask \/ WatchdogCheck

(***************************************************************************)
(* Commit tools: ouroboros/tools/git.py                                    *)
(***************************************************************************)
\* Result strings of the commit tools (their fixed prefixes).
R_OK == "OK: committed to ouroboros"
R_OK_SKIPPED == "OK: committed to ouroboros [TESTS_SKIPPED: 3 consecutive failures]"
R_EMPTY_MSG == "ERROR: commit_message must be non-empty."
R_CHECKOUT == "GIT_ERROR (checkout)"
R_FILE_WRITE == "FILE_WRITE_ERROR"
R_PATH == "PATH_ERROR"
R_ADD == "GIT_ERROR (add)"
R_STATUS == "GIT_ERROR (status)"
R_NO_CHANGES == "GIT_NO_CHANGES: nothing to commit."
R_COMMIT == "GIT_ERROR (commit)"
R_TESTS_FAILED == "TESTS_FAILED: Tests failed, commit blocked."

StartsWithOK(r) == r \in {R_OK, R_OK_SKIPPED}

\* Outcomes of the pytest subprocess.
PytestOutcomes == {"pass", "fail", "timeout", "not_installed", "exception"}

\* A gate that runs pytest whatever OUROBOROS_PRE_PUSH_TESTS says (the mutant of
\* RunPrePushTests).
RunPrePushTestsIgnoresEnv(envFlag, testsDirExists, pytest) ==
    IF ~testsDirExists THEN ""
    ELSE CASE pytest = "pass" -> ""
           [] pytest = "fail" -> "pytest output"
           [] pytest = "timeout" -> "PRE_PUSH_TEST_ERROR: pytest timed out after 30 seconds"
           [] pytest = "not_installed" -> "PRE_PUSH_TEST_ERROR: pytest not installed or not found in PATH"
           [] OTHER -> "PRE_PUSH_TEST_ERROR: Unexpected error running tests"

\* _run_pre_push_tests: "" stands for None (no error), otherwise the error text.
RunPrePushTests(envFlag, testsDirExists, pytest) ==
    IF envFlag # "1" THEN ""
    ELSE IF ~testsDirExists THEN ""
    ELSE CASE pytest = "pass" -> ""
           [] pytest = "fail" -> "pytest output"
           [] pytest = "timeout" -> "PRE_PUSH_TEST_ERROR: pytest timed out after 30 seconds"
           [] pytest = "not_installed" -> "PRE_PUSH_TEST_ERROR: pytest not installed or not found in PATH"
           [] OTHER -> "PRE_PUSH_TEST_ERROR: Unexpected error running tests"

\* _git_commit_with_tests: "" for None, else the TESTS_FAILED text.
GitCommitWithTests(envFlag, testsDirExists, pytest) ==
    IF RunPrePushTests(envFlag, testsDirExists, pytest) # "" THEN R_TESTS_FAILED ELSE ""

\* The number of consecutive failures at which the commit is kept.
MAX_CONSECUTIVE_FAILURES == 3

\* Mutant of AfterCommit: the revert (git reset --soft HEAD~1) is left out.
AfterCommitNoRevert(skip_tests, push_error, failures, newHead) ==
    IF ~skip_tests /\ push_error # ""
    THEN IF failures + 1 >= MAX_CONSECUTIVE_FAILURES
         THEN [failures |-> 0, head |-> newHead, pushed |-> TRUE, result |-> R_OK_SKIPPED]
         ELSE [failures |-> failures + 1, head |-> newHead, pushed |-> FALSE,
               result |-> push_error]
    ELSE [failures |-> 0, head |-> newHead, pushed |-> TRUE, result |-> R_OK]

\* Mutant of AfterCommit: the third failure keeps the commit and goes on counting.
AfterCommitKeepsCounting(skip_tests, push_error, failures, newHead) ==
    IF ~skip_tests /\ push_error # ""
    THEN IF failures + 1 >= MAX_CONSECUTIVE_FAILURES
         THEN [failures |-> failures + 1, head |-> newHead, pushed |-> TRUE,
               result |-> R_OK_SKIPPED]
         ELSE [failures |-> failures + 1, head |-> newHead - 1, pushed |-> FALSE,
               result |-> push_error]
    ELSE [failures |-> 0, head |-> newHead, pushed |-> TRUE, result |-> R_OK]

\* Mutant of AfterCommit: the kept commit of the third failure leaves
\* ctx.last_push_succeeded as _git_commit_with_tests set it.
AfterCommitKeptUnflagged(skip_tests, push_error, failures, newHead) ==
    IF ~skip_tests /\ push_error # ""
    THEN IF failures + 1 >= MAX_CONSECUTIVE_FAILURES
         THEN [failures |-> 0, head |-> newHead, pushed |-> FALSE, result |-> R_OK_SKIPPED]
         ELSE [failures |-> failures + 1, head |-> newHead - 1, pushed |-> FALSE,
               result |-> push_error]
    ELSE [failures |-> 0, head |-> newHead, pushed |-> TRUE, result |-> R_OK]

\* The part of both tools after `git commit` succeeded (head already counts the
\* new commit): the test gate, the revert, the counter.  Returns the new
\* counter, HEAD, ctx.last_push_succeeded and the result.
AfterCommit(skip_tests, push_error, failures, newHead) ==
    IF ~skip_tests /\ push_error # ""
    THEN IF failures + 1 >= MAX_CONSECUTIVE_FAILURES
         THEN [failures |-> 0, head |-> newHead, pushed |-> TRUE, result |-> R_OK_SKIPPED]
         ELSE [failures |-> failures + 1, head |-> newHead - 1, pushed |-> FALSE,
               result |-> push_error]
    ELSE [failures |-> 0, head |-> newHead, pushed |-> TRUE, result |-> R_OK]

\* An early return of a tool: nothing committed, the counter untouched.
EarlyReturn(r) ==
    [failures |-> consecutive_test_failures, head |-> head, pushed |-> FALSE, result |-> r]

\* The steps of _repo_write_commit that can fail before the test gate.
WriteCommitFailures == {"none", "empty_message", "checkout", "file_write", "add", "commit"}

\* The steps of _repo_commit_push that can fail before the test gate; "raised"
\* is an exception of _ensure_gitignore or _unstage_binaries, which no except
\* clause of the tool catches.
CommitPushFailures == {"none", "empty_message", "checkout", "path", "add", "status",
                       "no_changes", "commit", "raised"}

\* The string a failed step returns; a call that raises returns none ("").
FailureResult(f) ==
    CASE f = "empty_message" -> R_EMPTY_MSG
      [] f = "raised" -> ""
      [] f = "checkout" -> R_CHECKOUT
      [] f = "file_write" -> R_FILE_WRITE
      [] f = "path" -> R_PATH
      [] f = "add" -> R_ADD
      [] f = "status" -> R_STATUS
      [] f = "no_changes" -> R_NO_CHANGES
      [] OTHER -> R_COMMIT

\* `lock = _acquire_git_lock(ctx)` is reached: the message check before it did
\* not return.
Acquired(fails) == fails # "empty_message"

\* A tool without the finally clause: the lock is released where the try block
\* runs to its end, and left behind by a return or an exception inside it (the
\* mutant of LockAfterCall).
LockAfterCallNoFinally(held, fails, out) ==
    IF Acquired(fails) THEN fails # "none" \/ out.result # R_OK ELSE held

\* locks/git.lock once the call is over: created by _acquire_git_lock and
\* unlinked by `finally: _release_git_lock(lock)`, whichever way the try block
\* was left; untouched by a call that never reached the acquire.
LockAfterCall(held, fails, out) ==
    IF Acquired(fails) THEN FALSE ELSE held

\* One whole call of a commit tool; the lock is taken after the message check
\* and released by the finally clause on every path.
CommitCall(tool, fails, skip_tests, envFlag, testsDirExists, pytest) ==
    /\ gitCalls < MaxGitCalls
    /\ ~gitLockFile
    /\ LET push_error == GitCommitWithTests(envFlag, testsDirExists, pytest)
           out == IF fails # "none" THEN EarlyReturn(FailureResult(fails))
                  ELSE AfterCommit(skip_tests, push_error, consecutive_test_failures, head + 1)
       IN /\ consecutive_test_failures' = out.failures
          /\ head' = out.head
          /\ last_push_succeeded' = out.pushed
          /\ gitResult' = out.result
          /\ gitLast' = [tool |-> tool, fails |-> fails, skip_tests |-> skip_tests,
                         tests_failed |-> (push_error # ""),
                         failuresBefore |-> consecutive_test_failures,
                         headBefore |-> head, lockTaken |-> Acquired(fails),
                         gateOff |-> (envFlag # "1" \/ ~testsDirExists)]
          /\ gitLockFile' = LockAfterCall(gitLockFile, fails, out)
    /\ gitCalls' = gitCalls + 1
    /\ UNCHANGED notGit

RepoWriteCommit ==
    \E fails \in WriteCommitFailures, skip_tests \in BOOLEAN, envFlag \in {"1", "0"},
       testsDirExists \in BOOLEAN, pytest \in PytestOutcomes :
        CommitCall("repo_write_commit", fails, skip_tests, envFlag, testsDirExists, pytest)

RepoCommitPush ==
    \E fails \in CommitPushFailures, skip_tests \in BOOLEAN, envFlag \in {"1", "0"},
       testsDirExists \in BOOLEAN, pytest \in PytestOutcomes :
        CommitCall("repo_commit", fails, skip_tests, envFlag, testsDirExists, pytest)

InitGit ==
    /\ consecutive_test_failures = 0
    /\ head = 1
    /\ last_push_succeeded = FALSE
    /\ gitResult = ""
    /\ gitLockFile = FALSE
    /\ gitCalls = 0
    /\ gitLast = [tool |-> "", fails |-> "none", skip_tests |-> FALSE,
                  tests_failed |-> FALSE, failuresBefore |-> 0, headBefore |-> 1,
                  lockTaken |-> FALSE, gateOff |-> FALSE]

NextGit == RepoWriteCommit \/ RepoCommitPush

(***************************************************************************)
(* Git lock: ouroboros/tools/git.py, _acquire_git_lock / _release_git_lock *)
(* Time is counted in ticks of 120 seconds.                                *)
(***************************************************************************)
LockProcs == 1..NumLockProcs

\* stale_sec = 600 and timeout_sec = 120, in ticks of 120 seconds.
LOCK_STALE_TICKS == 5
LOCK_TIMEOUT_TICKS == 1

\* A caller enters _acquire_git_lock.
LockBegin(p) ==
    /\ lockPc[p] = "idle"
    /\ lockPc' = [lockPc EXCEPT ![p] = "loop"]
    /\ lockDeadline' = [lockDeadline EXCEPT ![p] = lockNow + LOCK_TIMEOUT_TICKS]
    /\ UNCHANGED <<lockNow, lockExists, lockMtime, lockTimeouts, notLock>>

\* Head of the while loop: the deadline test, then exists() and stat().
LockLoop(p) ==
    /\ lockPc[p] = "loop"
    /\ IF lockNow >= lockDeadline[p]
       THEN /\ lockPc' = [lockPc EXCEPT ![p] = "idle"]
            /\ lockTimeouts' = [lockTimeouts EXCEPT ![p] = TRUE]
       ELSE /\ lockPc' = [lockPc EXCEPT ![p] =
                  IF lockExists /\ lockNow - lockMtime > LOCK_STALE_TICKS
                  THEN "unlink" ELSE "open"]
            /\ UNCHANGED lockTimeouts
    /\ UNCHANGED <<lockNow, lockExists, lockMtime, lockDeadline, notLock>>

\* lock_path.unlink() of a file found stale: removes whatever file is there now
\* and continues the loop; a missing file (FileNotFoundError) falls through to
\* os.open.
LockUnlinkStale(p) ==
    /\ lockPc[p] = "unlink"
    /\ lockPc' = [lockPc EXCEPT ![p] = IF lockExists THEN "loop" ELSE "open"]
    /\ lockExists' = FALSE
    /\ UNCHANGED <<lockNow, lockMtime, lockDeadline, lockTimeouts, notLock>>

\* os.open(O_CREAT | O_EXCL): creates the file and returns, or FileExistsError,
\* sleep(0.5) and back to the loop.
LockOpen(p) ==
    /\ lockPc[p] = "open"
    /\ IF lockExists
       THEN /\ lockPc' = [lockPc EXCEPT ![p] = "loop"]
            /\ UNCHANGED <<lockExists, lockMtime>>
       ELSE /\ lockPc' = [lockPc EXCEPT ![p] = "holding"]
            /\ lockExists' = TRUE
            /\ lockMtime' = lockNow
    /\ UNCHANGED <<lockNow, lockDeadline, lockTimeouts, notLock>>

\* _release_git_lock: unlink, FileNotFoundError ignored.
LockRelease(p) ==
    /\ lockPc[p] = "holding"
    /\ lockPc' = [lockPc EXCEPT ![p] = "idle"]
    /\ lockExists' = FALSE
    /\ UNCHANGED <<lockNow, lockMtime, lockDeadline, lockTimeouts, notLock>>

LockTick ==
    /\ lockNow < MaxLockClock
    /\ lockNow' = lockNow + 1
    /\ UNCHANGED <<lockExists, lockMtime, lockPc, lockDeadline, lockTimeouts, notLock>>

InitLock ==
    /\ lockNow = 0
    /\ lockExists = FALSE
    /\ lockMtime = 0
    /\ lockPc = [p \in LockProcs |-> "idle"]
    /\ lockDeadline = [p \in LockProcs |-> 0]
    /\ lockTimeouts = [p \in LockProcs |-> FALSE]

NextLock ==
    \/ \E p \in LockProcs : LockBegin(p)
    \/ \E p \in LockProcs : LockLoop(p)
    \/ \E p \in LockProcs : LockUnlinkStale(p)
    \/ \E p \in LockProcs : LockOpen(p)
    \/ \E p \in LockProcs : LockRelease(p)
    \/ LockTick

(***************************************************************************)
(* Single-instance PID lock: ouroboros/config.py, launcher.py main         *)
(***************************************************************************)
\* Launcher processes started on the same APP_ROOT.
Instances == {"first", "second", "third"}

\* Another instance holds the exclusive lock on file f.
LockedByOther(i, f) == \E j \in Instances \ {i} : osLock[j] = f

\* Some process has file f open.
IsOpen(f) == \E j \in Instances : lock_fd[j] = f

\* open(str(PID_FILE), "w"): the file the path names, created when there is none.
Opened == IF PID_FILE = 0 THEN filesCreated + 1 ELSE PID_FILE

\* acquire_pid_lock up to the lock call: the file is opened for writing.  Without
\* portalocker the pid is written and the call returns True at once.
AcquireOpens(i) ==
    /\ ipc[i] = "off"
    /\ PID_FILE = 0 => filesCreated < MaxPidFiles
    /\ PID_FILE' = Opened
    /\ filesCreated' = IF PID_FILE = 0 THEN filesCreated + 1 ELSE filesCreated
    /\ lock_fd' = [lock_fd EXCEPT ![i] = Opened]
    /\ ipc' = [ipc EXCEPT ![i] = IF portalocker THEN "opened" ELSE "holding"]
    /\ UNCHANGED <<portalocker, pidPlatform, osLock, notPidLock>>

\* portalocker.lock(_lock_fd, LOCK_EX | LOCK_NB) and the rest of acquire_pid_lock:
\* True with the lock held, or the file closed and False.
AcquireLocks(i) ==
    /\ ipc[i] = "opened"
    /\ IF LockedByOther(i, lock_fd[i])
       THEN /\ lock_fd' = [lock_fd EXCEPT ![i] = 0]
            /\ ipc' = [ipc EXCEPT ![i] = "refused"]
            /\ UNCHANGED osLock
       ELSE /\ osLock' = [osLock EXCEPT ![i] = lock_fd[i]]
            /\ ipc' = [ipc EXCEPT ![i] = "holding"]
            /\ UNCHANGED lock_fd
    /\ UNCHANGED <<portalocker, pidPlatform, PID_FILE, filesCreated, notPidLock>>

\* main after acquire_pid_lock returned False: the notice window, then return.
RefusedExits(i) ==
    /\ ipc[i] = "refused"
    /\ ipc' = [ipc EXCEPT ![i] = "off"]
    /\ UNCHANGED <<portalocker, pidPlatform, PID_FILE, filesCreated, lock_fd, osLock,
                   notPidLock>>

\* release_pid_lock, first half: unlock and close; _lock_fd = None.
ReleaseUnlocks(i) ==
    /\ ipc[i] = "holding"
    /\ osLock' = [osLock EXCEPT ![i] = 0]
    /\ lock_fd' = [lock_fd EXCEPT ![i] = 0]
    /\ ipc' = [ipc EXCEPT ![i] = "unlocked"]
    /\ UNCHANGED <<portalocker, pidPlatform, PID_FILE, filesCreated, notPidLock>>

\* release_pid_lock, second half: PID_FILE.unlink(missing_ok=True), any error
\* swallowed; then the process exits.
ReleaseUnlinks(i) ==
    /\ ipc[i] = "unlocked"
    /\ PID_FILE' = IF pidPlatform = "nt" /\ IsOpen(PID_FILE) THEN PID_FILE ELSE 0
    /\ ipc' = [ipc EXCEPT ![i] = "off"]
    /\ UNCHANGED <<portalocker, pidPlatform, filesCreated, lock_fd, osLock, notPidLock>>

\* The process dies (SIGKILL included): the OS closes its file and drops its lock.
InstanceDies(i) ==
    /\ ipc[i] \in {"opened", "holding", "unlocked"}
    /\ osLock' = [osLock EXCEPT ![i] = 0]
    /\ lock_fd' = [lock_fd EXCEPT ![i] = 0]
    /\ ipc' = [ipc EXCEPT ![i] = "off"]
    /\ UNCHANGED <<portalocker, pidPlatform, PID_FILE, filesCreated, notPidLock>>

\* No launcher is running; portalocker is installed.
InitPidLock ==
    /\ portalocker = TRUE
    /\ pidPlatform = "posix"
    /\ PID_FILE = 0
    /\ filesCreated = 0
    /\ lock_fd = [i \in Instances |-> 0]
    /\ osLock = [i \in Instances |-> 0]
    /\ ipc = [i \in Instances |-> "off"]

NextPidLock ==
    \/ \E i \in Instances : AcquireOpens(i)
    \/ \E i \in Instances : AcquireLocks(i)
    \/ \E i \in Instances : RefusedExits(i)
    \/ \E i \in Instances : ReleaseUnlocks(i)
    \/ \E i \in Instances : ReleaseUnlinks(i)
    \/ \E i \in Instances : InstanceDies(i)

(***************************************************************************)
(* Protected files and bootstrap: launcher.py                              *)
(***************************************************************************)
\* The protected files (sync_paths) and those of them the bundle holds.
ProtectedFiles == {"ouroboros/safety.py", "prompts/SAFETY.md", "ouroboros/tools/registry.py"}
BundledFiles == ProtectedFiles

\* _sync_core_files: every bundled protected file is copied over the working tree's.
SyncCoreFiles(tree) ==
    [f \in ProtectedFiles |-> IF f \in BundledFiles THEN "bundle" ELSE tree[f]]

\* git status --porcelain of the protected files once they are added: not empty
\* when a file differs from its committed copy.
StatusNotEmpty(tree, commit) == \E f \in ProtectedFiles : tree[f] # commit[f]

\* _sync_core_files then _commit_synced_files.
SyncAndCommit ==
    /\ worktree' = SyncCoreFiles(worktree)
    /\ IF StatusNotEmpty(SyncCoreFiles(worktree), committed)
       THEN /\ sync_commits < MaxSyncCommits
            /\ committed' = SyncCoreFiles(worktree)
            /\ sync_commits' = sync_commits + 1
       ELSE UNCHANGED <<committed, sync_commits>>

\* bootstrap_repo at a launch: sync and commit in a repository that has server.py,
\* the full copy and `git init` when REPO_DIR is missing, server.py and web copied
\* when only they are missing.
BootstrapRepo ==
    /\ launcherAlive /\ ~bootstrapped
    /\ bootstrapped' = TRUE
    /\ REPO_DIR' = "full"
    /\ CASE REPO_DIR = "full" -> SyncAndCommit
         [] REPO_DIR = "absent" ->
                /\ worktree' = [f \in ProtectedFiles |-> "bundle"]
                /\ committed' = [f \in ProtectedFiles |-> "bundle"]
                /\ UNCHANGED sync_commits
         [] REPO_DIR = "partial" -> UNCHANGED <<worktree, committed, sync_commits>>
    /\ UNCHANGED notSync

\* The agent (or a tool it runs) rewrites a protected file in the working tree,
\* with other content or with the bundled content again.
AgentWrites(f, content) ==
    /\ launcherAlive /\ lpc = "agent_running"
    /\ worktree[f] # content
    /\ worktree' = [worktree EXCEPT ![f] = content]
    /\ UNCHANGED <<REPO_DIR, committed, sync_commits, bootstrapped, notSync>>

\* The agent commits the working tree.
AgentCommits ==
    /\ launcherAlive /\ lpc = "agent_running"
    /\ committed # worktree
    /\ committed' = worktree
    /\ UNCHANGED <<REPO_DIR, worktree, sync_commits, bootstrapped, notSync>>

\* git reset --hard: the working tree is the HEAD commit again.
AgentResetsHard ==
    /\ launcherAlive /\ lpc = "agent_running"
    /\ committed # worktree
    /\ worktree' = committed
    /\ UNCHANGED <<REPO_DIR, committed, sync_commits, bootstrapped, notSync>>

\* server.py is removed from REPO_DIR.
AgentRemovesServerPy ==
    /\ launcherAlive /\ lpc = "agent_running"
    /\ REPO_DIR = "full"
    /\ REPO_DIR' = "partial"
    /\ UNCHANGED <<worktree, committed, sync_commits, bootstrapped, notSync>>

\* The application is launched again after the launcher process has ended.
LauncherStartsAgain ==
    /\ ~launcherAlive
    /\ launcherAlive' = TRUE
    /\ bootstrapped' = FALSE
    /\ lpc' = "loop_head"
    /\ shutdown_event' = FALSE
    /\ crash_times' = <<>>
    /\ exit_code' = -1
    /\ UNCHANGED <<launcherNow, agentsStarted, lastExit, panicAt, REPO_DIR, worktree,
                   committed, sync_commits, notLauncher>>

\* A repository bootstrapped by an earlier launch, nothing drifted.
InitSync ==
    /\ REPO_DIR = "full"
    /\ worktree = [f \in ProtectedFiles |-> "bundle"]
    /\ committed = [f \in ProtectedFiles |-> "bundle"]
    /\ sync_commits = 0
    /\ bootstrapped = TRUE

(***************************************************************************)
(* Launcher: launcher.py, agent_lifecycle_loop                             *)
(***************************************************************************)
RESTART_EXIT_CODE == 42
PANIC_EXIT_CODE == 99
MAX_CRASH_RESTARTS == 5
\* CRASH_WINDOW_SEC = 120, in ticks of 30 seconds.
CRASH_WINDOW_TICKS == 4

\* Return codes an agent process can end with: normal, error, restart, panic.
AgentExitCodes == {0, 1, RESTART_EXIT_CODE, PANIC_EXIT_CODE}

\* Mutant of PruneCrashes: the crash is appended and no old time is dropped.
PruneCrashesNever(times, now) == Append(times, now)

\* crash_times after a crash at time now: appended, then pruned to the window.
PruneCrashes(times, now) ==
    SelectSeq(Append(times, now), LAMBDA t : (now - t) < CRASH_WINDOW_TICKS)

\* Mutant of AfterExit: the restart code is handled like the panic code.
AfterExitNoRestart(code, times, now) ==
    IF code \in {PANIC_EXIT_CODE, RESTART_EXIT_CODE} THEN "done"
    ELSE IF Len(PruneCrashes(times, now)) >= MAX_CRASH_RESTARTS THEN "done"
    ELSE "loop_head"

\* Where the loop goes after the agent exited with `code` (shutdown not set).
AfterExit(code, times, now) ==
    IF code = PANIC_EXIT_CODE THEN "done"
    ELSE IF code = RESTART_EXIT_CODE THEN "loop_head"
    ELSE IF Len(PruneCrashes(times, now)) >= MAX_CRASH_RESTARTS THEN "done"
    ELSE "loop_head"

\* Head of `while not _shutdown_event.is_set()`: start_agent.
StartAgent ==
    /\ launcherAlive /\ bootstrapped /\ lpc = "loop_head" /\ ~shutdown_event
    /\ agentsStarted < MaxAgentStarts
    /\ lpc' = "agent_running"
    /\ agentsStarted' = agentsStarted + 1
    /\ UNCHANGED <<shutdown_event, launcherAlive, launcherNow, crash_times, exit_code,
                   lastExit, panicAt, notLauncher, syncVars>>

\* Head of the loop with the shutdown event set: the loop ends.
LifecycleLoopEnds ==
    /\ launcherAlive /\ lpc = "loop_head" /\ shutdown_event
    /\ lpc' = "done"
    /\ UNCHANGED <<shutdown_event, launcherAlive, launcherNow, crash_times, agentsStarted,
                   exit_code, lastExit, panicAt,
                   notLauncher, syncVars>>

\* proc.wait() returns with `code`; the rest of the loop body, the sync of the
\* protected files before a restart included.
AgentExits(code) ==
    /\ launcherAlive /\ lpc = "agent_running"
    /\ exit_code' = code
    /\ lastExit' = [shutdown |-> shutdown_event, started |-> agentsStarted]
    /\ panicAt' = IF code = PANIC_EXIT_CODE /\ ~shutdown_event /\ panicAt = -1
                  THEN agentsStarted ELSE panicAt
    /\ IF shutdown_event
       THEN /\ lpc' = "done"
            /\ UNCHANGED <<shutdown_event, crash_times>>
       ELSE /\ lpc' = AfterExit(code, crash_times, launcherNow)
            /\ shutdown_event' = (code = PANIC_EXIT_CODE)
            /\ crash_times' = IF code \in {PANIC_EXIT_CODE, RESTART_EXIT_CODE}
                              THEN crash_times
                              ELSE PruneCrashes(crash_times, launcherNow)
    /\ IF ~shutdown_event /\ code = RESTART_EXIT_CODE
       THEN SyncAndCommit
       ELSE UNCHANGED <<worktree, committed, sync_commits>>
    /\ UNCHANGED <<launcherAlive, launcherNow, agentsStarted, REPO_DIR, bootstrapped,
                   notLauncher>>

\* _on_closing: the window is closed, the shutdown event is set.
WindowClosing ==
    /\ launcherAlive /\ ~shutdown_event
    /\ shutdown_event' = TRUE
    /\ UNCHANGED <<lpc, launcherAlive, launcherNow, crash_times, agentsStarted, exit_code,
                   lastExit, panicAt, notLauncher, syncVars>>

\* The launcher process ends: os._exit(0) at the end of _on_closing, or the
\* window is destroyed after a panic and main returns.
LauncherExits ==
    /\ launcherAlive /\ shutdown_event
    /\ launcherAlive' = FALSE
    /\ UNCHANGED <<lpc, shutdown_event, launcherNow, crash_times, agentsStarted, exit_code,
                   lastExit, panicAt, notLauncher, syncVars>>

LauncherTick ==
    /\ launcherAlive /\ launcherNow < MaxLauncherClock
    /\ launcherNow' = launcherNow + 1
    /\ UNCHANGED <<lpc, shutdown_event, launcherAlive, crash_times, agentsStarted,
                   exit_code, lastExit, panicAt,
                   notLauncher, syncVars>>

\* _poll_port_file(timeout=30) and _wait_for_server(timeout=45) run to their
\* timeouts when the agent is gone before it wrote the port file: 75 seconds, of
\* which the model counts the two whole ticks of 30 seconds.
STARTUP_WAIT_TICKS == 2

\* The clock of the model stops at its horizon; from there on the origin of time
\* moves along, which leaves every difference now - t of the loop as it is.
ClockAt(now) == IF now > MaxLauncherClock THEN MaxLauncherClock ELSE now

TimesAt(times, now) == [k \in DOMAIN times |-> times[k] - (now - ClockAt(now))]

\* One whole iteration of the lifecycle loop for an agent that crashes (exit code
\* 1): start_agent, the waits for the port file and the health check, proc.wait()
\* and the crash detection. An agent that is gone `early`, before it wrote the
\* port file, is noticed when both waits have timed out; one that answered the
\* health check is noticed when it exits, d ticks after it started. The count of
\* started agents is left alone, so that the loop can go on for ever.
CrashLoopIteration(early, d) ==
    /\ launcherAlive /\ bootstrapped /\ lpc = "loop_head" /\ ~shutdown_event
    /\ LET now == launcherNow + (IF early THEN STARTUP_WAIT_TICKS ELSE d)
       IN  /\ lpc' = AfterExit(1, crash_times, now)
           /\ crash_times' = TimesAt(PruneCrashes(crash_times, now), now)
           /\ launcherNow' = ClockAt(now)
    /\ exit_code' = 1
    /\ lastExit' = [shutdown |-> FALSE, started |-> agentsStarted]
    /\ UNCHANGED <<shutdown_event, launcherAlive, agentsStarted, panicAt, notLauncher,
                   syncVars>>

\* Every agent crashes: at once or after up to MaxCrashDelay ticks of service, or
\* before it wrote the port file.
AgentCrashes ==
    \E early \in BOOLEAN, d \in 0..MaxCrashDelay : CrashLoopIteration(early, d)

NextCrashLoop == AgentCrashes

InitLauncher ==
    /\ lpc = "loop_head"
    /\ shutdown_event = FALSE
    /\ launcherAlive = TRUE
    /\ launcherNow = 0
    /\ crash_times = <<>>
    /\ agentsStarted = 0
    /\ exit_code = -1
    /\ lastExit = [shutdown |-> FALSE, started |-> 0]
    /\ panicAt = -1

NextLauncher ==
    \/ StartAgent
    \/ LifecycleLoopEnds
    \/ \E code \in AgentExitCodes : AgentExits(code)
    \/ WindowClosing
    \/ LauncherExits
    \/ LauncherTick

NextSync ==
    \/ BootstrapRepo
    \/ StartAgent
    \/ \E code \in {RESTART_EXIT_CODE, PANIC_EXIT_CODE} : AgentExits(code)
    \/ \E f \in ProtectedFiles, content \in {"bundle", "drift"} : AgentWrites(f, content)
    \/ AgentCommits
    \/ AgentResetsHard
    \/ AgentRemovesServerPy
    \/ WindowClosing
    \/ LauncherExits
    \/ LauncherStartsAgain

(***************************************************************************)
(* Supervisor state and the chat agent (supervisor.state, supervisor.workers) *)
(***************************************************************************)
\* Texts the owner sends.
OwnerTexts == {"/panic", "/Restart now", "do X", "cancel"}

\* Command texts the owner sends.
EvolveTexts == {"/evolve", "/evolve on", "/evolve off", "/evolve stop", "/evolve 0"}

BgTexts == {"/bg", "/bg on", "/bg start", "/bg off", "/bg stop"}

DualPathTexts == {"/status", "/review"} \cup EvolveTexts \cup BgTexts

\* text.strip().lower()
Lowered(t) ==
    CASE t = "/Restart now" -> "/restart now"
      [] t = "/Status"      -> "/status"
      [] OTHER              -> t

\* lowered.split()
Split(t) ==
    CASE t = "/restart now" -> <<"/restart", "now">>
      [] t = "/evolve on"   -> <<"/evolve", "on">>
      [] t = "/evolve off"  -> <<"/evolve", "off">>
      [] t = "/evolve stop" -> <<"/evolve", "stop">>
      [] t = "/evolve 0"    -> <<"/evolve", "0">>
      [] t = "/bg on"       -> <<"/bg", "on">>
      [] t = "/bg start"    -> <<"/bg", "start">>
      [] t = "/bg off"      -> <<"/bg", "off">>
      [] t = "/bg stop"     -> <<"/bg", "stop">>
      [] t = "do X"         -> <<"do", "X">>
      [] t = ""             -> <<>>
      [] OTHER              -> <<t>>

\* lowered.startswith(prefix), for the prefixes the command chains test.
StartsWith(t, prefix) ==
    \/ t = prefix
    \/ Split(t) # <<>> /\ Split(t)[1] = prefix
    \/ t = "/statusquo" /\ prefix \in {"/", "/status"}
    \/ prefix = "/" /\ Split(t) # <<>>
                    /\ Split(t)[1] \in {"/panic", "/restart", "/status", "/review",
                                        "/evolve", "/bg"}

\* parts[1] if len(parts) > 1 else dflt
Action(t, dflt) == IF Len(Split(t)) > 1 THEN Split(t)[2] ELSE dflt

\* turn_on = action not in ("off", "stop", "0")
TurnOn(t) == Action(t, "on") \notin {"off", "stop", "0"}

\* Event types workers publish.
EventTypes == {"restart_request", "task_done"}

\* What safe_restart can return: ok or refused.
SafeRestartResults == {"ok", "refused"}

\* Chat dispatch threads that have been started and have not finished.
LiveChatThreads == {i \in DOMAIN chatThreads : chatThreads[i].st \in {"started", "running"}}

\* handle_chat_direct begins handling on its thread: the agent is marked busy.
ChatThreadBegins(i) ==
    /\ procExit = -1
    /\ i \in DOMAIN chatThreads /\ chatThreads[i].st = "started"
    /\ chatThreads' = [chatThreads EXCEPT ![i].st = "running"]
    /\ agent_busy' = TRUE

\* handle_chat_direct returns: the agent is idle again.
ChatThreadEnds(i) ==
    /\ procExit = -1
    /\ i \in DOMAIN chatThreads /\ chatThreads[i].st = "running"
    /\ chatThreads' = [chatThreads EXCEPT ![i].st = "done"]
    /\ agent_busy' = FALSE

\* Task types of the queue.
TaskTypes == {"task", "review", "evolution"}

\* Priority of a task type: lower is more urgent; evolution yields to owner work.
TaskPriority(type) == IF type = "evolution" THEN 2 ELSE IF type = "review" THEN 1 ELSE 0

\* sort_pending: PENDING ordered by priority, equal priorities in queue order.
RECURSIVE SortPending(_)
SortPending(q) ==
    IF q = <<>> THEN <<>>
    ELSE LET rest == SortPending(Tail(q))
             before == SelectSeq(rest, LAMBDA t : TaskPriority(t) < TaskPriority(Head(q)))
             after == SelectSeq(rest, LAMBDA t : TaskPriority(t) >= TaskPriority(Head(q)))
         IN  before \o <<Head(q)>> \o after

\* queue_review_task(reason="owner:/review", force=True)
QueueReviewTask(q) == SortPending(Append(q, "review"))

\* PENDING[:] = [t for t in PENDING if str(t.get("type")) != "evolution"]
WithoutEvolution(q) == SelectSeq(q, LAMBDA t : t # "evolution")

\* enqueue_evolution_task_if_needed: when evolution mode is on and no evolution
\* task is pending, one may be enqueued (when one is due).
AfterEnqueueEvolution(q, enabled) ==
    {q} \cup (IF enabled /\ Len(q) < MaxPending
                         /\ \A k \in DOMAIN q : q[k] # "evolution"
              THEN {SortPending(Append(q, "evolution"))}
              ELSE {})

\* assign_tasks: the first pending task may be handed to a free worker.
AfterAssignTasks(q) == {q} \cup (IF q = <<>> THEN {} ELSE {Tail(q)})

\* The queue after enqueue_evolution_task_if_needed() and assign_tasks().
AfterQueueSteps(q, enabled) ==
    UNION {AfterAssignTasks(q2) : q2 \in AfterEnqueueEvolution(q, enabled)}

\* The notes _handle_supervisor_command returns for the dual-path commands
\* (the dash of the source is written "-").
StatusNote == "[Supervisor handled /status - status text already sent to chat]\n"

ReviewNote == "[Supervisor handled /review - review task queued]\n"

EvolveNote(turn_on) ==
    "[Supervisor handled /evolve - evolution toggled "
        \o (IF turn_on THEN "ON" ELSE "OFF") \o "]\n"

BgNote(action) == "[Supervisor handled /bg " \o action \o "]\n"

InitSup ==
    /\ session_id = 1
    /\ tg_offset = InitialTgOffset
    /\ workersAlive = TRUE
    /\ kills = 0
    /\ agent_busy = FALSE
    /\ chatThreads = <<>>
    /\ injected = <<>>
    /\ panicMsgs = 0
    /\ panic_flag = FALSE
    /\ lastSnapshot = "startup"
    /\ snapAfterPanic = FALSE
    /\ procExit = -1
    /\ safe_restart_ok = "none"
    /\ ownerRestart = [accepted |-> FALSE, sessionBefore |-> 0, tgBefore |-> 0]
    /\ evtRestartAccepted = FALSE

\* state.json holds no flags yet and nothing was restored into the queue; the
\* Colab launcher has auto-started the background consciousness.
InitCommands ==
    /\ evolution_mode_enabled = FALSE
    /\ bg_consciousness_enabled = FALSE
    /\ server_consciousness_running = FALSE
    /\ colab_consciousness_running = TRUE
    /\ statusReplies = 0
    /\ batched_image = FALSE
    /\ photoNotices = 0

(***************************************************************************)
(* Desktop supervisor: server.py, _run_supervisor and __main__             *)
(***************************************************************************)
\* min(30, 2 ** crash_count)
Backoff(n) == IF 2 ^ n < 30 THEN 2 ^ n ELSE 30

MAX_SUPERVISOR_CRASHES == 3

\* The owner sends a message through the UI (bridge.ui_send).
ServerOwnerSends(t) ==
    /\ procExit = -1 /\ ownerSent < MaxOwnerMsgs
    /\ bridgeQ' = Append(bridgeQ, t)
    /\ ownerSent' = ownerSent + 1
    /\ UNCHANGED <<spc, crash_count, backoff, restart_requested, eventQ, updates,
                   eventsPublished, supVars, cmdVars, notServer>>

\* A worker or the chat agent publishes an event.
WorkerPublishes(e) ==
    /\ procExit = -1 /\ eventsPublished < MaxEvents
    /\ eventQ' = Append(eventQ, e)
    /\ eventsPublished' = eventsPublished + 1
    /\ UNCHANGED <<spc, crash_count, backoff, restart_requested, bridgeQ, updates,
                   ownerSent, supVars, cmdVars, notServer>>

\* Workers publish for as long as they run: any number of events over time (log,
\* progress and task events, all dispatched alike), the queue holding at most
\* MaxEventQ of them at once in the model.
WorkerKeepsPublishing(e) ==
    /\ procExit = -1 /\ Len(eventQ) < MaxEventQ
    /\ eventQ' = Append(eventQ, e)
    /\ UNCHANGED <<spc, crash_count, backoff, restart_requested, bridgeQ, updates,
                   ownerSent, eventsPublished, supVars, cmdVars, notServer>>

\* What a call of the tick leaves alone besides what it names.
notTick == <<gitVars, lockVars, launcherVars, colabVars, imgVars, mailVars, pidVars,
             syncVars, diagVars, ownerVars, pauseVars, watchVars,
             spc, crash_count, backoff, restart_requested, ownerSent, eventsPublished,
             session_id, tg_offset, kills, agent_busy, chatThreads, injected, panicMsgs,
             panic_flag, snapAfterPanic, procExit, safe_restart_ok, ownerRestart,
             evtRestartAccepted, evolution_mode_enabled, bg_consciousness_enabled,
             server_consciousness_running, colab_consciousness_running, statusReplies>>

\* Head of the loop: rotate_chat_log_if_needed and ensure_workers_healthy.
TickBegins ==
    /\ tpc = "head"
    /\ tpc' = "drain"
    /\ tickLog' = <<>>
    /\ workersAlive' = TRUE
    /\ UNCHANGED <<snapshotQ, eventQ, bridgeQ, updates, PENDING, lastSnapshot, notTick>>

\* `while True: evt = event_q.get_nowait()`: one event is dispatched, or the
\* queue is Empty and the loop breaks.
TickDrains ==
    /\ tpc = "drain"
    /\ IF eventQ # <<>>
       THEN /\ eventQ' = Tail(eventQ)
            /\ UNCHANGED <<tpc, tickLog>>
       ELSE /\ tpc' = "enforce"
            /\ tickLog' = Append(tickLog, "drain")
            /\ UNCHANGED eventQ
    /\ UNCHANGED <<snapshotQ, bridgeQ, updates, PENDING, lastSnapshot, workersAlive,
                   notTick>>

\* enforce_task_timeouts(): no running task is past a deadline.
TickEnforcesTimeouts ==
    /\ tpc = "enforce"
    /\ tpc' = "enqueue"
    /\ tickLog' = Append(tickLog, "enforce_task_timeouts")
    /\ UNCHANGED <<snapshotQ, eventQ, bridgeQ, updates, PENDING, lastSnapshot,
                   workersAlive, notTick>>

\* A tick that goes from the evolution step straight to the snapshot (the
\* mutant of TickEnqueuesEvolution).
TickEnqueuesEvolutionSkipsAssign ==
    /\ tpc = "enqueue"
    /\ tpc' = "persist"
    /\ tickLog' = Append(tickLog, "enqueue_evolution_task_if_needed")
    /\ PENDING' \in AfterEnqueueEvolution(PENDING, evolution_mode_enabled)
    /\ UNCHANGED <<snapshotQ, eventQ, bridgeQ, updates, lastSnapshot, workersAlive,
                   notTick>>

\* enqueue_evolution_task_if_needed()
TickEnqueuesEvolution ==
    /\ tpc = "enqueue"
    /\ tpc' = "assign"
    /\ tickLog' = Append(tickLog, "enqueue_evolution_task_if_needed")
    /\ PENDING' \in AfterEnqueueEvolution(PENDING, evolution_mode_enabled)
    /\ UNCHANGED <<snapshotQ, eventQ, bridgeQ, updates, lastSnapshot, workersAlive,
                   notTick>>

\* assign_tasks()
TickAssigns ==
    /\ tpc = "assign"
    /\ tpc' = "persist"
    /\ tickLog' = Append(tickLog, "assign_tasks")
    /\ PENDING' \in AfterAssignTasks(PENDING)
    /\ UNCHANGED <<snapshotQ, eventQ, bridgeQ, updates, lastSnapshot, workersAlive,
                   notTick>>

\* persist_queue_snapshot(reason="main_loop")
TickPersists ==
    /\ tpc = "persist"
    /\ tpc' = "poll"
    /\ tickLog' = Append(tickLog, "persist_queue_snapshot")
    /\ snapshotQ' = PENDING
    /\ lastSnapshot' = "main_loop"
    /\ UNCHANGED <<eventQ, bridgeQ, updates, PENDING, workersAlive, notTick>>

\* get_updates(offset) returns the owner messages that wait.
TickPolls ==
    /\ tpc = "poll"
    /\ tpc' = "route"
    /\ tickLog' = Append(tickLog, "get_updates")
    /\ updates' = bridgeQ
    /\ bridgeQ' = <<>>
    /\ UNCHANGED <<snapshotQ, eventQ, PENDING, lastSnapshot, workersAlive, notTick>>

\* get_updates raises: the error is logged and the loop goes to its head after a
\* sleep; this tick routes nothing.
TickPollFails ==
    /\ tpc = "poll"
    /\ tpc' = "head"
    /\ UNCHANGED <<tickLog, snapshotQ, eventQ, bridgeQ, updates, PENDING, lastSnapshot,
                   workersAlive, notTick>>

\* One pass of `for upd in updates`: the message is routed.
TickRoutes ==
    /\ tpc = "route" /\ updates # <<>>
    /\ updates' = Tail(updates)
    /\ tickLog' = Append(tickLog, "route")
    /\ UNCHANGED <<tpc, snapshotQ, eventQ, bridgeQ, PENDING, lastSnapshot, workersAlive,
                   notTick>>

\* The updates are handled: the tick is complete and the loop sleeps.
TickEnds ==
    /\ tpc = "route" /\ updates = <<>>
    /\ tpc' = "head"
    /\ UNCHANGED <<tickLog, snapshotQ, eventQ, bridgeQ, updates, PENDING, lastSnapshot,
                   workersAlive, notTick>>

\* The owner and the workers beside the tick.
TickOwnerActs == ServerOwnerSends("do X")

TickWorkerActs == WorkerKeepsPublishing("task_done")

NextTick ==
    \/ TickOwnerActs
    \/ TickWorkerActs
    \/ TickBegins
    \/ TickDrains
    \/ TickEnforcesTimeouts
    \/ TickEnqueuesEvolution
    \/ TickAssigns
    \/ TickPersists
    \/ TickPolls
    \/ TickPollFails
    \/ TickRoutes
    \/ TickEnds

\* `while not _restart_requested.is_set()`, then rotate_chat_log_if_needed and
\* ensure_workers_healthy (dead workers are replaced).
ServerTickBegins ==
    /\ procExit = -1 /\ spc = "tick"
    /\ IF restart_requested
       THEN /\ spc' = "stopped"
            /\ UNCHANGED workersAlive
       ELSE /\ spc' = "drain"
            /\ workersAlive' = TRUE
    /\ UNCHANGED <<crash_count, backoff, restart_requested, eventQ, bridgeQ, updates,
                   ownerSent, eventsPublished, session_id, tg_offset, kills, agent_busy,
                   chatThreads, injected, panicMsgs, panic_flag, lastSnapshot,
                   snapAfterPanic, procExit, safe_restart_ok, ownerRestart,
                   evtRestartAccepted, cmdVars, notServer>>

\* _handle_restart_in_supervisor that goes on whatever safe_restart returned.
HandleRestartIgnoringRefusal(res) ==
    /\ safe_restart_ok' = res
    /\ workersAlive' = FALSE
    /\ kills' = kills + 1
    /\ session_id' = session_id + 1
    /\ lastSnapshot' = "pre_restart_exit"
    /\ snapAfterPanic' = (snapAfterPanic \/ panic_flag)
    /\ restart_requested' = TRUE
    /\ evtRestartAccepted' = TRUE

\* _handle_restart_in_supervisor with safe_restart returning `res`.
HandleRestartInSupervisor(res) ==
    /\ safe_restart_ok' = res
    /\ IF res = "ok"
       THEN /\ workersAlive' = FALSE
            /\ kills' = kills + 1
            /\ session_id' = session_id + 1
            /\ lastSnapshot' = "pre_restart_exit"
            /\ snapAfterPanic' = (snapAfterPanic \/ panic_flag)
            /\ restart_requested' = TRUE
            /\ evtRestartAccepted' = TRUE
       ELSE UNCHANGED <<workersAlive, kills, session_id, lastSnapshot, snapAfterPanic,
                        restart_requested, evtRestartAccepted>>

\* One pass of the drain loop: get_nowait returned an event.
ServerDrainsEvent ==
    /\ procExit = -1 /\ spc = "drain" /\ eventQ # <<>>
    /\ eventQ' = Tail(eventQ)
    /\ IF Head(eventQ) = "restart_request"
       THEN \E res \in SafeRestartResults : HandleRestartInSupervisor(res)
       ELSE UNCHANGED <<workersAlive, kills, session_id, lastSnapshot, snapAfterPanic,
                        restart_requested, evtRestartAccepted, safe_restart_ok>>
    /\ UNCHANGED <<spc, crash_count, backoff, bridgeQ, updates, ownerSent, eventsPublished,
                   tg_offset, agent_busy, chatThreads, injected, panicMsgs, panic_flag,
                   procExit, ownerRestart, cmdVars, notServer>>

\* get_nowait raised Empty: the drain ends.
ServerDrainEnds ==
    /\ procExit = -1 /\ spc = "drain" /\ eventQ = <<>>
    /\ spc' = "steps"
    /\ UNCHANGED <<crash_count, backoff, restart_requested, eventQ, bridgeQ, updates,
                   ownerSent, eventsPublished, supVars, cmdVars, notServer>>

\* enforce_task_timeouts, enqueue_evolution_task_if_needed, assign_tasks,
\* persist_queue_snapshot, bridge.get_updates. assign_tasks hands tasks to idle
\* workers: with the workers killed there is none and PENDING keeps its tasks.
ServerTickSteps ==
    /\ procExit = -1 /\ spc = "steps"
    /\ PENDING' \in IF workersAlive
                    THEN AfterQueueSteps(PENDING, evolution_mode_enabled)
                    ELSE AfterEnqueueEvolution(PENDING, evolution_mode_enabled)
    /\ lastSnapshot' = "main_loop"
    /\ snapAfterPanic' = (snapAfterPanic \/ panic_flag)
    /\ updates' = bridgeQ
    /\ bridgeQ' = <<>>
    /\ spc' = "updates"
    /\ UNCHANGED <<crash_count, backoff, restart_requested, eventQ, ownerSent,
                   eventsPublished, session_id, tg_offset, workersAlive, kills, agent_busy,
                   chatThreads, injected, panicMsgs, procExit, panic_flag, safe_restart_ok,
                   ownerRestart, evtRestartAccepted, evolution_mode_enabled, bg_consciousness_enabled,
                   server_consciousness_running, colab_consciousness_running,
                   statusReplies, notServer>>

\* _execute_panic_stop: panic flag written, workers killed, os._exit(PANIC_EXIT_CODE).
PanicStop ==
    /\ server_consciousness_running' = FALSE
    /\ evolution_mode_enabled' = FALSE
    /\ bg_consciousness_enabled' = FALSE
    /\ panic_flag' = TRUE
    /\ workersAlive' = FALSE
    /\ kills' = kills + 1
    /\ procExit' = PANIC_EXIT_CODE

\* An /evolve branch that never purges the queue (the mutant of HandleEvolve).
HandleEvolveWithoutPurge(lowered) ==
    /\ evolution_mode_enabled' = TurnOn(lowered)
    /\ IF TurnOn(lowered)
       THEN UNCHANGED <<PENDING, lastSnapshot, snapAfterPanic>>
       ELSE /\ PENDING' = PENDING
            /\ lastSnapshot' = "evolve_off"
            /\ snapAfterPanic' = (snapAfterPanic \/ panic_flag)

\* The /evolve branch of both command chains: the flag is saved; turning off
\* purges the evolution tasks, sorts and persists the queue snapshot.
HandleEvolve(lowered) ==
    /\ evolution_mode_enabled' = TurnOn(lowered)
    /\ IF TurnOn(lowered)
       THEN UNCHANGED <<PENDING, lastSnapshot, snapAfterPanic>>
       ELSE /\ PENDING' = SortPending(WithoutEvolution(PENDING))
            /\ lastSnapshot' = "evolve_off"
            /\ snapAfterPanic' = (snapAfterPanic \/ panic_flag)

\* The /bg branch of server.py: start or stop, and the choice is saved to state.
ServerHandleBg(lowered) ==
    IF Action(lowered, "status") \in {"start", "on", "1"}
    THEN /\ server_consciousness_running' = TRUE
         /\ bg_consciousness_enabled' = TRUE
    ELSE IF Action(lowered, "status") \in {"stop", "off", "0"}
    THEN /\ server_consciousness_running' = FALSE
         /\ bg_consciousness_enabled' = FALSE
    ELSE UNCHANGED <<server_consciousness_running, bg_consciousness_enabled>>

\* One pass of `for upd in updates`: the owner's text is handled.
ServerHandlesUpdate ==
    /\ procExit = -1 /\ spc = "updates" /\ updates # <<>>
    /\ updates' = Tail(updates)
    /\ LET text == Head(updates)
           lowered == Lowered(text)
       IN  IF StartsWith(lowered, "/panic")
           THEN /\ panicMsgs' = panicMsgs + 1
                /\ PanicStop
                /\ UNCHANGED <<restart_requested, safe_restart_ok, ownerRestart,
                               injected, chatThreads, PENDING, lastSnapshot,
                               snapAfterPanic, statusReplies>>
           ELSE IF StartsWith(lowered, "/restart")
           THEN /\ \E res \in SafeRestartResults :
                     /\ safe_restart_ok' = res
                     /\ ownerRestart' = [accepted |-> (res = "ok"),
                                         sessionBefore |-> session_id,
                                         tgBefore |-> tg_offset]
                     /\ IF res = "ok"
                        THEN /\ workersAlive' = FALSE
                             /\ kills' = kills + 1
                             /\ restart_requested' = TRUE
                        ELSE UNCHANGED <<workersAlive, kills, restart_requested>>
                /\ UNCHANGED <<panicMsgs, panic_flag, procExit, injected, chatThreads,
                               evolution_mode_enabled, bg_consciousness_enabled,
                               server_consciousness_running, PENDING, lastSnapshot,
                               snapAfterPanic, statusReplies>>
           ELSE IF StartsWith(lowered, "/review")
           THEN /\ PENDING' = QueueReviewTask(PENDING)
                /\ UNCHANGED <<panicMsgs, panic_flag, procExit, workersAlive, kills,
                               restart_requested, safe_restart_ok, ownerRestart,
                               injected, chatThreads, evolution_mode_enabled,
                               bg_consciousness_enabled, server_consciousness_running,
                               lastSnapshot, snapAfterPanic, statusReplies>>
           ELSE IF StartsWith(lowered, "/evolve")
           THEN /\ HandleEvolve(lowered)
                /\ UNCHANGED <<panicMsgs, panic_flag, procExit, workersAlive, kills,
                               restart_requested, safe_restart_ok, ownerRestart,
                               injected, chatThreads, bg_consciousness_enabled,
                               server_consciousness_running, statusReplies>>
           ELSE IF StartsWith(lowered, "/bg")
           THEN /\ ServerHandleBg(lowered)
                /\ UNCHANGED <<panicMsgs, panic_flag, procExit, workersAlive, kills,
                               restart_requested, safe_restart_ok, ownerRestart,
                               injected, chatThreads, evolution_mode_enabled, PENDING,
                               lastSnapshot, snapAfterPanic, statusReplies>>
           ELSE IF StartsWith(lowered, "/status")
           THEN /\ statusReplies' = statusReplies + 1
                /\ UNCHANGED <<panicMsgs, panic_flag, procExit, workersAlive, kills,
                               restart_requested, safe_restart_ok, ownerRestart,
                               injected, chatThreads, evolution_mode_enabled,
                               bg_consciousness_enabled, server_consciousness_running,
                               PENDING, lastSnapshot, snapAfterPanic>>
           ELSE /\ IF agent_busy
                   THEN /\ injected' = Append(injected, text)
                        /\ UNCHANGED chatThreads
                   ELSE /\ chatThreads' = Append(chatThreads,
                                 [st |-> "started", text |-> text, img |-> FALSE])
                        /\ UNCHANGED injected
                /\ UNCHANGED <<panicMsgs, panic_flag, procExit, workersAlive, kills,
                               restart_requested, safe_restart_ok, ownerRestart,
                               evolution_mode_enabled, bg_consciousness_enabled,
                               server_consciousness_running, PENDING, lastSnapshot,
                               snapAfterPanic, statusReplies>>
    /\ UNCHANGED <<spc, crash_count, backoff, eventQ, bridgeQ, ownerSent, eventsPublished,
                   session_id, tg_offset, agent_busy, evtRestartAccepted,
                   colab_consciousness_running, notServerPause>>
    /\ server_consciousness_paused' =
          (server_consciousness_paused \/ Len(chatThreads') > Len(chatThreads))

\* The text starts with none of the command prefixes of the chain.
PlainText(lowered) ==
    \A c \in {"/panic", "/restart", "/review", "/evolve", "/bg", "/status"} :
        ~StartsWith(lowered, c)

\* One pass of `for upd in updates` for a message to dispatch, where
\* threading.Thread(...).start() raises: the consciousness was paused before, no
\* thread runs _run_and_resume, and the exception ends the tick in the except
\* branch of the loop.
ServerThreadStartFails ==
    /\ procExit = -1 /\ spc = "updates" /\ updates # <<>>
    /\ PlainText(Lowered(Head(updates))) /\ ~agent_busy
    /\ server_consciousness_paused' = TRUE
    /\ crash_count' = crash_count + 1
    /\ updates' = <<>>
    /\ IF crash_count + 1 >= MAX_SUPERVISOR_CRASHES
       THEN /\ spc' = "returned"
            /\ UNCHANGED backoff
       ELSE /\ spc' = "tick"
            /\ backoff' = Backoff(crash_count + 1)
    /\ UNCHANGED <<restart_requested, eventQ, bridgeQ, ownerSent, eventsPublished,
                   supVars, cmdVars, notServerPause>>

\* The for loop is over: crash_count = 0, time.sleep(0.5).
ServerTickEnds ==
    /\ procExit = -1 /\ spc = "updates" /\ updates = <<>>
    /\ crash_count' = 0
    /\ backoff' = 0
    /\ spc' = "tick"
    /\ UNCHANGED <<restart_requested, eventQ, bridgeQ, updates, ownerSent,
                   eventsPublished, supVars, cmdVars, notServer>>

\* A call of the tick raises: the except branch of the loop.
ServerTickCrashes ==
    /\ procExit = -1 /\ spc \in {"drain", "steps", "updates"}
    /\ crash_count' = crash_count + 1
    /\ updates' = <<>>
    /\ IF crash_count + 1 >= MAX_SUPERVISOR_CRASHES
       THEN /\ spc' = "returned"
            /\ UNCHANGED backoff
       ELSE /\ spc' = "tick"
            /\ backoff' = Backoff(crash_count + 1)
    /\ UNCHANGED <<restart_requested, eventQ, bridgeQ, ownerSent, eventsPublished,
                   supVars, cmdVars, notServer>>

\* api_git_rollback / api_reset: _request_restart_exit without safe_restart.
ApiRequestsRestart ==
    /\ procExit = -1 /\ ~restart_requested
    /\ restart_requested' = TRUE
    /\ UNCHANGED <<spc, crash_count, backoff, eventQ, bridgeQ, updates, ownerSent,
                   eventsPublished, supVars, cmdVars, notServer>>

\* __main__: _check_restart saw the flag, server.run() returned, workers are killed
\* and the process leaves with os._exit(RESTART_EXIT_CODE).
MainExitsForRestart ==
    /\ procExit = -1 /\ restart_requested
    /\ workersAlive' = FALSE
    /\ kills' = kills + 1
    /\ procExit' = RESTART_EXIT_CODE
    /\ UNCHANGED <<serverVars, session_id, tg_offset, agent_busy, chatThreads, injected,
                   panicMsgs, panic_flag, lastSnapshot, snapAfterPanic, safe_restart_ok,
                   ownerRestart, evtRestartAccepted, cmdVars, notServer>>

\* The thread started for a dispatch enters handle_chat_direct.
ServerChatThreadBegins ==
    /\ \E i \in DOMAIN chatThreads : ChatThreadBegins(i)
    /\ UNCHANGED <<serverVars, session_id, tg_offset, workersAlive, kills, injected,
                   panicMsgs, panic_flag, lastSnapshot, snapAfterPanic, procExit,
                   safe_restart_ok, ownerRestart, evtRestartAccepted, cmdVars, notServer>>

\* handle_chat_direct returns on its thread.
ServerChatThreadEnds ==
    /\ \E i \in DOMAIN chatThreads : ChatThreadEnds(i)
    /\ UNCHANGED <<serverVars, session_id, tg_offset, workersAlive, kills, injected,
                   panicMsgs, panic_flag, lastSnapshot, snapAfterPanic, procExit,
                   safe_restart_ok, ownerRestart, evtRestartAccepted, cmdVars, notServerPause>>
    /\ server_consciousness_paused' = FALSE

ServerOwnerActs == \E t \in OwnerTexts : ServerOwnerSends(t)

ServerWorkerActs == \E e \in EventTypes : WorkerPublishes(e)

InitServer ==
    /\ spc = "tick"
    /\ crash_count = 0
    /\ backoff = 0
    /\ restart_requested = FALSE
    /\ eventQ = <<>>
    /\ bridgeQ = <<>>
    /\ updates = <<>>
    /\ ownerSent = 0
    /\ eventsPublished = 0

NextServer ==
    \/ ServerOwnerActs
    \/ ServerWorkerActs
    \/ ServerTickBegins
    \/ ServerDrainsEvent
    \/ ServerDrainEnds
    \/ ServerTickSteps
    \/ ServerHandlesUpdate
    \/ ServerTickEnds
    \/ ServerTickCrashes
    \/ ApiRequestsRestart
    \/ MainExitsForRestart
    \/ ServerChatThreadBegins
    \/ ServerChatThreadEnds

\* The supervisor ticks with no owner message, the workers publishing throughout.
NextDrain ==
    \/ WorkerKeepsPublishing("task_done")
    \/ ServerWorkerActs
    \/ ServerTickBegins
    \/ ServerDrainsEvent
    \/ ServerDrainEnds
    \/ ServerTickSteps
    \/ ServerTickEnds
    \/ MainExitsForRestart

(***************************************************************************)
(* Colab supervisor: colab_launcher.py, main loop and batch window         *)
(***************************************************************************)
BATCH_WINDOW_TICKS == 30

EARLY_EXIT_TICKS == 3

POLL_SLEEP_TICKS == 2

EXTEND_TICKS == 6

LOOP_SLEEP_TICKS == 2

POLL_ERROR_SLEEP_TICKS == 30

\* Exit status of `raise SystemExit("PANIC")`: a string argument gives status 1.
SYSTEM_EXIT_STATUS == 1

\* The process image was replaced by os.execv.
RE_EXECUTED == -2

Max(a, b) == IF a >= b THEN a ELSE b

\* "\n\n".join(texts)
RECURSIVE Join(_)
Join(texts) ==
    IF texts = <<>> THEN ""
    ELSE IF Len(texts) = 1 THEN texts[1]
    ELSE texts[1] \o "\n\n" \o Join(Tail(texts))

\* update_id of the i-th message the owner sent.
UpdateId(i) == InitialTgOffset + i - 1

\* TG.get_updates(offset=off): the updates not yet confirmed, oldest first.
RECURSIVE UpdatesFrom(_, _)
UpdatesFrom(off, n) ==
    IF n = 0 THEN <<>>
    ELSE IF UpdateId(n) >= off THEN Append(UpdatesFrom(off, n - 1), n)
    ELSE UpdatesFrom(off, n - 1)

GetUpdates(off) == UpdatesFrom(off, Len(inbox))

\* The messages of `idxs` are marked in the inbox with how they were fetched.
Fetched(box, idxs, field) ==
    [i \in DOMAIN box |->
        IF \E k \in DOMAIN idxs : idxs[k] = i
        THEN IF field = "viaMain" THEN [box[i] EXCEPT !.viaMain = TRUE]
             ELSE [box[i] EXCEPT !.viaWindow = TRUE]
        ELSE box[i]]

\* The messages of `idxs` have entered one more conversation entry.
Entered(box, idxs) ==
    [i \in DOMAIN box |->
        IF \E k \in DOMAIN idxs : idxs[k] = i
        THEN [box[i] EXCEPT !.entries = @ + 1]
        ELSE box[i]]

\* int(from_user.get("id") or 0) of the i-th message; a message whose sender was
\* not recorded is the owner's.
Sender(i) == IF i \in DOMAIN senders THEN senders[i] ELSE OwnerUser

\* A main loop that takes every user for the owner once one is registered (the
\* mutant of FromOwner).
FromAnyone(i) == owner_id # NoOwner

\* The main loop's test of a message: an owner is registered and
\* `user_id != int(st.get("owner_id"))` is false.
FromOwner(i) == owner_id # NoOwner /\ Sender(i) = owner_id

\* The window's test: `_uid2 and _batch_state.get("owner_id") and _uid2 ==
\* int(_batch_state["owner_id"])`; _batch_state was loaded when the window
\* opened, and its owner_id is the state file's.
WindowFromOwner(i) ==
    /\ Sender(i) # 0
    /\ owner_id # NoOwner /\ owner_id # 0
    /\ Sender(i) = owner_id

\* The owner sends a message to the bot.
ColabOwnerSends(t) ==
    /\ Len(inbox) < MaxColabMsgs /\ time_now <= MaxSendClock
    /\ inbox' = Append(inbox, [text |-> t, caption |-> "", photo |-> FALSE,
                               at |-> time_now, viaMain |-> FALSE,
                               viaWindow |-> FALSE, entries |-> 0])
    /\ UNCHANGED <<time_now, offset, cpc, cwake, cupdates, wupdates, batch_start,
                   batch_deadline, batched_texts, batch_state, batch_dirty, winOpen,
                   winMsgs, winFirstPoll, supVars, cmdVars, imgVars, notColab>>

\* Time passes while the main thread sleeps or waits for Telegram; a sleep returns
\* at most MaxOversleep ticks late. Time is counted from the owner's first message.
ColabTime ==
    /\ procExit = -1 /\ time_now < MaxColabClock /\ inbox # <<>>
    /\ cpc \in {"tick", "wsleep"} /\ time_now < cwake + MaxOversleep
    /\ time_now' = time_now + 1
    /\ UNCHANGED <<inbox, offset, cpc, cwake, cupdates, wupdates, batch_start,
                   batch_deadline, batched_texts, batch_state, batch_dirty, winOpen,
                   winMsgs, winFirstPoll, supVars, cmdVars, imgVars, notColab>>

\* Head of `while True`: ensure_workers_healthy, the tick steps,
\* persist_queue_snapshot and TG.get_updates.
ColabTickPolls ==
    /\ procExit = -1 /\ cpc = "tick" /\ time_now >= cwake
    /\ PENDING' \in AfterQueueSteps(PENDING, evolution_mode_enabled)
    /\ workersAlive' = TRUE
    /\ lastSnapshot' = "main_loop"
    /\ snapAfterPanic' = (snapAfterPanic \/ panic_flag)
    /\ cupdates' = GetUpdates(offset)
    /\ inbox' = Fetched(inbox, GetUpdates(offset), "viaMain")
    /\ cpc' = "updates"
    /\ UNCHANGED <<time_now, offset, cwake, wupdates, batch_start, batch_deadline,
                   batched_texts, batch_state, batch_dirty, winOpen, winMsgs,
                   winFirstPoll, session_id, tg_offset, kills, agent_busy, chatThreads,
                   injected, panicMsgs, panic_flag, procExit, safe_restart_ok,
                   ownerRestart, evtRestartAccepted, evolution_mode_enabled, bg_consciousness_enabled,
                   server_consciousness_running, colab_consciousness_running,
                   statusReplies, imgVars, notColab>>

\* TG.get_updates raised: telegram_poll_error is logged, time.sleep(1.5), continue.
ColabPollFails ==
    /\ procExit = -1 /\ cpc = "tick" /\ time_now >= cwake
    /\ PENDING' \in AfterQueueSteps(PENDING, evolution_mode_enabled)
    /\ workersAlive' = TRUE
    /\ lastSnapshot' = "main_loop"
    /\ snapAfterPanic' = (snapAfterPanic \/ panic_flag)
    /\ cwake' = time_now + POLL_ERROR_SLEEP_TICKS
    /\ UNCHANGED <<time_now, inbox, offset, cpc, cupdates, wupdates, batch_start,
                   batch_deadline, batched_texts, batch_state, batch_dirty, winOpen,
                   winMsgs, winFirstPoll, session_id, tg_offset, kills, agent_busy,
                   chatThreads, injected, panicMsgs, panic_flag, procExit,
                   safe_restart_ok, ownerRestart, evtRestartAccepted, evolution_mode_enabled, bg_consciousness_enabled,
                   server_consciousness_running, colab_consciousness_running,
                   statusReplies, imgVars, notColab>>

\* _handle_supervisor_command for /panic: the message is sent, workers are killed,
\* tg_offset is saved and SystemExit("PANIC") ends the process.
ColabPanic(off) ==
    /\ panicMsgs' = panicMsgs + 1
    /\ workersAlive' = FALSE
    /\ kills' = kills + 1
    /\ tg_offset' = off
    /\ procExit' = SYSTEM_EXIT_STATUS
    /\ UNCHANGED <<session_id, safe_restart_ok, ownerRestart, panic_flag>>

\* A /restart branch that saves the command's own update id as tg_offset.
ColabRestartSavesUpdateId(off, res) ==
    /\ session_id' = session_id + 1
    /\ tg_offset' = off - 1
    /\ safe_restart_ok' = res
    /\ ownerRestart' = [accepted |-> (res = "ok"), sessionBefore |-> session_id,
                        tgBefore |-> tg_offset]
    /\ IF res = "ok"
       THEN /\ workersAlive' = FALSE
            /\ kills' = kills + 1
            /\ procExit' = RE_EXECUTED
       ELSE UNCHANGED <<workersAlive, kills, procExit>>
    /\ UNCHANGED <<panicMsgs, panic_flag>>

\* _handle_supervisor_command for /restart with safe_restart returning `res`.
ColabRestart(off, res) ==
    /\ session_id' = session_id + 1
    /\ tg_offset' = off
    /\ safe_restart_ok' = res
    /\ ownerRestart' = [accepted |-> (res = "ok"), sessionBefore |-> session_id,
                        tgBefore |-> tg_offset]
    /\ IF res = "ok"
       THEN /\ workersAlive' = FALSE
            /\ kills' = kills + 1
            /\ procExit' = RE_EXECUTED
       ELSE UNCHANGED <<workersAlive, kills, procExit>>
    /\ UNCHANGED <<panicMsgs, panic_flag>>

\* The /bg branch of _handle_supervisor_command: start or stop; state is not written.
ColabHandleBg(lowered) ==
    IF Action(lowered, "status") \in {"start", "on", "1"}
    THEN colab_consciousness_running' = TRUE
    ELSE IF Action(lowered, "status") \in {"stop", "off", "0"}
    THEN colab_consciousness_running' = FALSE
    ELSE UNCHANGED colab_consciousness_running

\* What the dual-path branches of _handle_supervisor_command write.
dualPathVars == <<statusReplies, PENDING, evolution_mode_enabled, lastSnapshot,
                  snapAfterPanic, colab_consciousness_running>>

\* The dual-path branches of _handle_supervisor_command: what the command does.
ColabDualPath(lowered) ==
    IF StartsWith(lowered, "/status")
    THEN /\ statusReplies' = statusReplies + 1
         /\ UNCHANGED <<PENDING, evolution_mode_enabled, lastSnapshot, snapAfterPanic,
                        colab_consciousness_running>>
    ELSE IF StartsWith(lowered, "/review")
    THEN /\ PENDING' = QueueReviewTask(PENDING)
         /\ UNCHANGED <<statusReplies, evolution_mode_enabled, lastSnapshot,
                        snapAfterPanic, colab_consciousness_running>>
    ELSE IF StartsWith(lowered, "/evolve")
    THEN /\ HandleEvolve(lowered)
         /\ UNCHANGED <<statusReplies, colab_consciousness_running>>
    ELSE IF StartsWith(lowered, "/bg")
    THEN /\ ColabHandleBg(lowered)
         /\ UNCHANGED <<statusReplies, PENDING, evolution_mode_enabled, lastSnapshot,
                        snapAfterPanic>>
    ELSE UNCHANGED dualPathVars

\* The dual-path branches of _handle_supervisor_command: the note returned
\* ("" for a text that is no recognised command).
ColabNote(lowered) ==
    IF StartsWith(lowered, "/status") THEN StatusNote
    ELSE IF StartsWith(lowered, "/review") THEN ReviewNote
    ELSE IF StartsWith(lowered, "/evolve") THEN EvolveNote(TurnOn(lowered))
    ELSE IF StartsWith(lowered, "/bg") THEN BgNote(Action(lowered, "status"))
    ELSE ""

\* `text = result + text`: the text that falls through to the chat agent.
Forwarded(text) == ColabNote(Lowered(text)) \o text

\* One pass of `for upd in updates` of the main loop.
ColabHandlesUpdate ==
    /\ procExit = -1 /\ cpc = "updates" /\ cupdates # <<>>
    /\ FromOwner(Head(cupdates))
    /\ cupdates' = Tail(cupdates)
    /\ LET i == Head(cupdates)
           off == UpdateId(i) + 1
           text == inbox[i].text
           image_data == inbox[i].photo
           lowered == Lowered(text)
       IN  /\ offset' = off
           /\ IF StartsWith(lowered, "/panic")
              THEN /\ ColabPanic(off)
                   /\ UNCHANGED <<inbox, cpc, injected, batch_start, batch_deadline,
                                  batched_texts, batch_state, batch_dirty, winOpen,
                                  winMsgs, winFirstPoll, dualPathVars, imgVars>>
              ELSE IF StartsWith(lowered, "/restart")
              THEN /\ \E res \in SafeRestartResults : ColabRestart(off, res)
                   /\ UNCHANGED <<inbox, cpc, injected, batch_start, batch_deadline,
                                  batched_texts, batch_state, batch_dirty, winOpen,
                                  winMsgs, winFirstPoll, dualPathVars, imgVars>>
              ELSE /\ ColabDualPath(lowered)
                   /\ IF Forwarded(text) = "" /\ ~image_data
                      THEN UNCHANGED <<inbox, cpc, injected, batch_start, batch_deadline,
                                       batched_texts, batch_state, batch_dirty, winOpen,
                                       winMsgs, winFirstPoll, imgVars>>
                      ELSE IF agent_busy
                      THEN /\ IF Forwarded(text) # ""
                              THEN /\ injected' = Append(injected, Forwarded(text))
                                   /\ inbox' = Entered(inbox, <<i>>)
                              ELSE UNCHANGED <<injected, inbox>>
                           /\ photoNotices' = IF image_data THEN photoNotices + 1
                                              ELSE photoNotices
                           /\ UNCHANGED <<cpc, batch_start, batch_deadline, batched_texts,
                                          batch_state, batch_dirty, winOpen, winMsgs,
                                          winFirstPoll, batched_image>>
                      ELSE /\ batch_start' = time_now
                           /\ batch_deadline' = time_now + BATCH_WINDOW_TICKS
                           /\ batched_texts' = IF Forwarded(text) # ""
                                               THEN <<Forwarded(text)>> ELSE <<>>
                           /\ batched_image' = image_data
                           /\ batch_state' = [session_id |-> session_id,
                                              tg_offset |-> tg_offset,
                                              evolution_mode_enabled |->
                                                  evolution_mode_enabled']
                           /\ batch_dirty' = FALSE
                           /\ winOpen' = i
                           /\ winMsgs' = IF Forwarded(text) # "" THEN <<i>> ELSE <<>>
                           /\ winFirstPoll' = -1
                           /\ cpc' = "window"
                           /\ UNCHANGED <<injected, inbox, photoNotices>>
                   /\ UNCHANGED <<panicMsgs, workersAlive, kills, tg_offset, procExit,
                                  session_id, safe_restart_ok, ownerRestart, panic_flag>>
    /\ UNCHANGED <<time_now, cwake, wupdates, agent_busy, chatThreads,
                   evtRestartAccepted, bg_consciousness_enabled,
                   server_consciousness_running, notColab>>

\* `while time.time() < _batch_deadline`: time.sleep(0.1) begins.
ColabWindowSleeps ==
    /\ procExit = -1 /\ cpc = "window" /\ time_now < batch_deadline
    /\ cpc' = "wsleep"
    /\ cwake' = time_now + POLL_SLEEP_TICKS
    /\ UNCHANGED <<time_now, inbox, offset, cupdates, wupdates, batch_start, batch_deadline,
                   batched_texts, batch_state, batch_dirty, winOpen, winMsgs,
                   winFirstPoll, supVars, cmdVars, imgVars, notColab>>

\* A window that closes without merging at all (the mutant of CloseWindow).
CloseWindowFirstTextOnly ==
    /\ IF batch_dirty
       THEN /\ session_id' = batch_state.session_id
            /\ tg_offset' = batch_state.tg_offset
            /\ evolution_mode_enabled' = batch_state.evolution_mode_enabled
       ELSE UNCHANGED <<session_id, tg_offset, evolution_mode_enabled>>
    /\ IF agent_busy
       THEN /\ IF (IF batched_texts = <<>> THEN "" ELSE batched_texts[1]) # ""
               THEN /\ injected' = Append(injected, (IF batched_texts = <<>> THEN "" ELSE batched_texts[1]))
                    /\ inbox' = Entered(inbox, (IF batched_texts = <<>> THEN <<>> ELSE <<winMsgs[1]>>))
               ELSE UNCHANGED <<injected, inbox>>
            /\ photoNotices' = IF batched_image THEN photoNotices + 1 ELSE photoNotices
            /\ UNCHANGED chatThreads
       ELSE /\ chatThreads' = Append(chatThreads,
                                     [st |-> "started", text |-> (IF batched_texts = <<>> THEN "" ELSE batched_texts[1]),
                                      img |-> batched_image])
            /\ inbox' = Entered(inbox, (IF batched_texts = <<>> THEN <<>> ELSE <<winMsgs[1]>>))
            /\ UNCHANGED <<injected, photoNotices>>
    /\ cpc' = "updates"
    /\ batch_start' = 0 /\ batch_deadline' = 0 /\ batched_texts' = <<>>
    /\ batch_state' = [session_id |-> 0, tg_offset |-> 0,
                       evolution_mode_enabled |-> FALSE]
    /\ batch_dirty' = FALSE /\ batched_image' = FALSE
    /\ winOpen' = 0 /\ winMsgs' = <<>> /\ winFirstPoll' = -1

\* After the window loop: save_state(_batch_state) if dirty, the texts are merged,
\* agent._busy is read again, and the prompt is injected or dispatched on a thread.
\* The window's locals are dead from here on and are cleared.
CloseWindow ==
    /\ IF batch_dirty
       THEN /\ session_id' = batch_state.session_id
            /\ tg_offset' = batch_state.tg_offset
            /\ evolution_mode_enabled' = batch_state.evolution_mode_enabled
       ELSE UNCHANGED <<session_id, tg_offset, evolution_mode_enabled>>
    /\ IF agent_busy
       THEN /\ IF Join(batched_texts) # ""
               THEN /\ injected' = Append(injected, Join(batched_texts))
                    /\ inbox' = Entered(inbox, winMsgs)
               ELSE UNCHANGED <<injected, inbox>>
            /\ photoNotices' = IF batched_image THEN photoNotices + 1 ELSE photoNotices
            /\ UNCHANGED chatThreads
       ELSE /\ chatThreads' = Append(chatThreads,
                                     [st |-> "started", text |-> Join(batched_texts),
                                      img |-> batched_image])
            /\ inbox' = Entered(inbox, winMsgs)
            /\ UNCHANGED <<injected, photoNotices>>
    /\ cpc' = "updates"
    /\ batch_start' = 0 /\ batch_deadline' = 0 /\ batched_texts' = <<>>
    /\ batch_state' = [session_id |-> 0, tg_offset |-> 0,
                       evolution_mode_enabled |-> FALSE]
    /\ batch_dirty' = FALSE /\ batched_image' = FALSE
    /\ winOpen' = 0 /\ winMsgs' = <<>> /\ winFirstPoll' = -1

\* The loop condition is false: the deadline has passed.
ColabWindowExpires ==
    /\ procExit = -1 /\ cpc = "window" /\ time_now >= batch_deadline
    /\ CloseWindow
    /\ UNCHANGED <<time_now, offset, cwake, cupdates, wupdates, workersAlive, kills, agent_busy, panicMsgs, panic_flag,
                   lastSnapshot, snapAfterPanic, procExit, safe_restart_ok, ownerRestart,
                   evtRestartAccepted, bg_consciousness_enabled,
                   server_consciousness_running, colab_consciousness_running, PENDING,
                   statusReplies, notColabPause>>
    /\ colab_consciousness_paused' =
          (colab_consciousness_paused \/ Len(chatThreads') > Len(chatThreads))

\* The window's deadline has passed, the agent is free and `_t.start()` raises:
\* the state is saved, the consciousness is paused and, in the except clause,
\* resumed; no thread runs and the batch is dropped.
ColabWindowExpiresThreadFails ==
    /\ procExit = -1 /\ cpc = "window" /\ time_now >= batch_deadline
    /\ ~agent_busy
    /\ IF batch_dirty
       THEN /\ session_id' = batch_state.session_id
            /\ tg_offset' = batch_state.tg_offset
            /\ evolution_mode_enabled' = batch_state.evolution_mode_enabled
       ELSE UNCHANGED <<session_id, tg_offset, evolution_mode_enabled>>
    /\ colab_consciousness_paused' = FALSE
    /\ cpc' = "updates"
    /\ batch_start' = 0 /\ batch_deadline' = 0 /\ batched_texts' = <<>>
    /\ batch_state' = [session_id |-> 0, tg_offset |-> 0,
                       evolution_mode_enabled |-> FALSE]
    /\ batch_dirty' = FALSE /\ batched_image' = FALSE
    /\ winOpen' = 0 /\ winMsgs' = <<>> /\ winFirstPoll' = -1
    /\ UNCHANGED <<time_now, inbox, offset, cwake, cupdates, wupdates, workersAlive,
                   kills, agent_busy, chatThreads, injected, photoNotices, panicMsgs,
                   panic_flag, lastSnapshot, snapAfterPanic, procExit, safe_restart_ok,
                   ownerRestart, evtRestartAccepted, bg_consciousness_enabled,
                   server_consciousness_running, colab_consciousness_running, PENDING,
                   statusReplies, notColabPause>>

\* A window poll that breaks on the 150 ms test alone, whatever the poll returned
\* (the mutant of ColabWindowPolls).
ColabWindowPollsBreaksEarly ==
    /\ procExit = -1 /\ cpc = "wsleep" /\ time_now >= cwake
    /\ IF time_now - batch_start < EARLY_EXIT_TICKS
       THEN /\ CloseWindow
            /\ UNCHANGED wupdates
       ELSE /\ wupdates' = GetUpdates(offset)
            /\ inbox' = Fetched(inbox, GetUpdates(offset), "viaWindow")
            /\ cpc' = "wextras"
            /\ winFirstPoll' = IF winFirstPoll = -1 THEN time_now ELSE winFirstPoll
            /\ UNCHANGED <<session_id, tg_offset, evolution_mode_enabled, imgVars,
                           injected, chatThreads, batch_start,
                           batch_deadline, batched_texts, batch_state, batch_dirty,
                           winOpen, winMsgs>>
    /\ UNCHANGED <<time_now, offset, cwake, cupdates, workersAlive, kills, agent_busy,
                   panicMsgs, panic_flag, lastSnapshot, snapAfterPanic, procExit,
                   safe_restart_ok, ownerRestart, evtRestartAccepted, bg_consciousness_enabled,
                   server_consciousness_running, colab_consciousness_running, PENDING,
                   statusReplies, notColabPause>>
    /\ colab_consciousness_paused' =
          (colab_consciousness_paused \/ Len(chatThreads') > Len(chatThreads))

\* time.sleep(0.1) is over and TG.get_updates(offset, timeout=0) returns; with
\* nothing returned less than 150 ms after the window opened, the loop breaks.
ColabWindowPolls ==
    /\ procExit = -1 /\ cpc = "wsleep" /\ time_now >= cwake
    /\ IF GetUpdates(offset) = <<>> /\ time_now - batch_start < EARLY_EXIT_TICKS
       THEN /\ CloseWindow
            /\ UNCHANGED wupdates
       ELSE /\ wupdates' = GetUpdates(offset)
            /\ inbox' = Fetched(inbox, GetUpdates(offset), "viaWindow")
            /\ cpc' = "wextras"
            /\ winFirstPoll' = IF winFirstPoll = -1 THEN time_now ELSE winFirstPoll
            /\ UNCHANGED <<session_id, tg_offset, evolution_mode_enabled, imgVars,
                           injected, chatThreads, batch_start,
                           batch_deadline, batched_texts, batch_state, batch_dirty,
                           winOpen, winMsgs>>
    /\ UNCHANGED <<time_now, offset, cwake, cupdates, workersAlive, kills, agent_busy, panicMsgs, panic_flag, lastSnapshot,
                   snapAfterPanic, procExit, safe_restart_ok, ownerRestart,
                   evtRestartAccepted, bg_consciousness_enabled,
                   server_consciousness_running, colab_consciousness_running, PENDING,
                   statusReplies, notColabPause>>
    /\ colab_consciousness_paused' =
          (colab_consciousness_paused \/ Len(chatThreads') > Len(chatThreads))

\* One pass of `for _upd in _extra_updates`.
ColabWindowHandlesExtra ==
    /\ procExit = -1 /\ cpc = "wextras" /\ wupdates # <<>>
    /\ WindowFromOwner(Head(wupdates))
    /\ wupdates' = Tail(wupdates)
    /\ LET i == Head(wupdates)
           off == Max(offset, UpdateId(i) + 1)
           txt2 == IF inbox[i].text # "" THEN inbox[i].text ELSE inbox[i].caption
           lowered == Lowered(txt2)
       IN  /\ offset' = off
           /\ batch_dirty' = TRUE
           /\ IF StartsWith(lowered, "/panic")
              THEN /\ ColabPanic(off)
                   /\ UNCHANGED <<batched_texts, winMsgs, batch_deadline, dualPathVars,
                                  batched_image>>
              ELSE IF StartsWith(lowered, "/restart")
              THEN /\ \E res \in SafeRestartResults : ColabRestart(off, res)
                   /\ UNCHANGED <<batched_texts, winMsgs, batch_deadline, dualPathVars,
                                  batched_image>>
              ELSE /\ ColabDualPath(lowered)
                   /\ IF Forwarded(txt2) # ""
                      THEN /\ batched_texts' = Append(batched_texts, Forwarded(txt2))
                           /\ winMsgs' = Append(winMsgs, i)
                           /\ batch_deadline' = Max(batch_deadline, time_now + EXTEND_TICKS)
                      ELSE UNCHANGED <<batched_texts, winMsgs, batch_deadline>>
                   /\ batched_image' = (batched_image \/ inbox[i].photo)
                   /\ UNCHANGED <<panicMsgs, workersAlive, kills, tg_offset, procExit,
                                  session_id, safe_restart_ok, ownerRestart, panic_flag>>
    /\ UNCHANGED <<time_now, inbox, cpc, cwake, cupdates, batch_start, batch_state, winOpen,
                   winFirstPoll, agent_busy, chatThreads, injected, evtRestartAccepted,
                   bg_consciousness_enabled, server_consciousness_running, photoNotices,
                   notColab>>

\* Any Telegram user sends the bot a message.
UserSends(u, t) ==
    /\ Len(inbox) < MaxColabMsgs /\ time_now <= MaxSendClock
    /\ Len(senders) = Len(inbox)
    /\ inbox' = Append(inbox, [text |-> t, caption |-> "", photo |-> FALSE,
                               at |-> time_now, viaMain |-> FALSE,
                               viaWindow |-> FALSE, entries |-> 0])
    /\ senders' = Append(senders, u)
    /\ UNCHANGED <<time_now, offset, cpc, cwake, cupdates, wupdates, batch_start,
                   batch_deadline, batched_texts, batch_state, batch_dirty, winOpen,
                   winMsgs, winFirstPoll, supVars, cmdVars, imgVars, owner_id,
                   notColabOwner>>

\* One pass of `for upd in updates` with no owner in the state file: the sender
\* is registered as owner and the loop continues with the next update.
ColabRegistersOwner ==
    /\ procExit = -1 /\ cpc = "updates" /\ cupdates # <<>>
    /\ owner_id = NoOwner
    /\ cupdates' = Tail(cupdates)
    /\ offset' = UpdateId(Head(cupdates)) + 1
    /\ owner_id' = Sender(Head(cupdates))
    /\ UNCHANGED <<time_now, inbox, cpc, cwake, wupdates, batch_start, batch_deadline,
                   batched_texts, batch_state, batch_dirty, winOpen, winMsgs,
                   winFirstPoll, supVars, cmdVars, imgVars, senders, notColabOwner>>

\* One pass of `for upd in updates` for a message of another user: `continue`.
ColabSkipsStranger ==
    /\ procExit = -1 /\ cpc = "updates" /\ cupdates # <<>>
    /\ owner_id # NoOwner /\ ~FromOwner(Head(cupdates))
    /\ cupdates' = Tail(cupdates)
    /\ offset' = UpdateId(Head(cupdates)) + 1
    /\ UNCHANGED <<time_now, inbox, cpc, cwake, wupdates, batch_start, batch_deadline,
                   batched_texts, batch_state, batch_dirty, winOpen, winMsgs,
                   winFirstPoll, supVars, cmdVars, imgVars, notColab>>

\* One pass of `for _upd in _extra_updates` for a message the window's owner
\* test rejects: the offset moves on and nothing else happens.
ColabWindowSkipsStranger ==
    /\ procExit = -1 /\ cpc = "wextras" /\ wupdates # <<>>
    /\ ~WindowFromOwner(Head(wupdates))
    /\ wupdates' = Tail(wupdates)
    /\ offset' = Max(offset, UpdateId(Head(wupdates)) + 1)
    /\ UNCHANGED <<time_now, inbox, cpc, cwake, cupdates, batch_start, batch_deadline,
                   batched_texts, batch_state, batch_dirty, winOpen, winMsgs,
                   winFirstPoll, supVars, cmdVars, imgVars, notColab>>

\* The for loop over _extra_updates is over: back to the loop condition.
ColabWindowExtrasDone ==
    /\ procExit = -1 /\ cpc = "wextras" /\ wupdates = <<>>
    /\ cpc' = "window"
    /\ UNCHANGED <<time_now, inbox, offset, cwake, cupdates, wupdates, batch_start,
                   batch_deadline, batched_texts, batch_state, batch_dirty, winOpen,
                   winMsgs, winFirstPoll, supVars, cmdVars, imgVars, notColab>>

\* After `for upd in updates`: tg_offset is saved, then time.sleep(0.1).
ColabTickEnds ==
    /\ procExit = -1 /\ cpc = "updates" /\ cupdates = <<>>
    /\ tg_offset' = offset
    /\ cpc' = "tick"
    /\ cwake' = time_now + LOOP_SLEEP_TICKS
    /\ UNCHANGED <<time_now, inbox, offset, cupdates, wupdates, batch_start, batch_deadline,
                   batched_texts, batch_state, batch_dirty, winOpen, winMsgs,
                   winFirstPoll, session_id, workersAlive, kills, agent_busy,
                   chatThreads, injected, panicMsgs, panic_flag, lastSnapshot,
                   snapAfterPanic, procExit, safe_restart_ok, ownerRestart,
                   evtRestartAccepted, cmdVars, imgVars, notColab>>

\* The thread started for a dispatch enters handle_chat_direct.
ColabChatThreadBegins ==
    /\ \E i \in DOMAIN chatThreads : ChatThreadBegins(i)
    /\ UNCHANGED <<colabVars, session_id, tg_offset, workersAlive, kills, injected,
                   panicMsgs, panic_flag, lastSnapshot, snapAfterPanic, procExit,
                   safe_restart_ok, ownerRestart, evtRestartAccepted, cmdVars, imgVars, notColab>>

\* handle_chat_direct returns on its thread.
ColabChatThreadEnds ==
    /\ \E i \in DOMAIN chatThreads : ChatThreadEnds(i)
    /\ UNCHANGED <<colabVars, session_id, tg_offset, workersAlive, kills, injected,
                   panicMsgs, panic_flag, lastSnapshot, snapAfterPanic, procExit,
                   safe_restart_ok, ownerRestart, evtRestartAccepted, cmdVars, imgVars, notColabPause>>
    /\ colab_consciousness_paused' = FALSE

ColabOwnerActs == \E t \in OwnerTexts : ColabOwnerSends(t)

InitColab ==
    /\ time_now = 0
    /\ inbox = <<>>
    /\ offset = InitialTgOffset
    /\ cpc = "tick"
    /\ cwake = 0
    /\ cupdates = <<>>
    /\ wupdates = <<>>
    /\ batch_start = 0
    /\ batch_deadline = 0
    /\ batched_texts = <<>>
    /\ batch_state = [session_id |-> 0, tg_offset |-> 0,
                      evolution_mode_enabled |-> FALSE]
    /\ batch_dirty = FALSE
    /\ winOpen = 0
    /\ winMsgs = <<>>
    /\ winFirstPoll = -1

NextColab ==
    \/ ColabOwnerActs
    \/ ColabTime
    \/ ColabTickPolls
    \/ ColabPollFails
    \/ ColabHandlesUpdate
    \/ ColabWindowSleeps
    \/ ColabWindowExpires
    \/ ColabWindowPolls
    \/ ColabWindowHandlesExtra
    \/ ColabWindowExtrasDone
    \/ ColabTickEnds
    \/ ColabChatThreadBegins
    \/ ColabChatThreadEnds

\* Texts users send: a message and the two terminal commands.
UserTexts == {"do X", "/panic", "/restart"}

UsersAct == \E u \in Users, t \in UserTexts : UserSends(u, t)

NextOwners ==
    \/ UsersAct
    \/ ColabRegistersOwner
    \/ ColabSkipsStranger
    \/ ColabWindowSkipsStranger
    \/ ColabTime
    \/ ColabTickPolls
    \/ ColabHandlesUpdate
    \/ ColabWindowSleeps
    \/ ColabWindowExpires
    \/ ColabWindowPolls
    \/ ColabWindowHandlesExtra
    \/ ColabWindowExtrasDone
    \/ ColabTickEnds
    \/ ColabChatThreadBegins
    \/ ColabChatThreadEnds

(***************************************************************************)
(* Per-task owner mailboxes: ouroboros/owner_inject.py                     *)
(***************************************************************************)
MailboxTasks == {"taskA", "taskB"}

MailboxTexts == {"for A", "for B"}

\* get_pending_path: the legacy global file of owner messages.
PendingPath == "memory/owner_inject.jsonl"

\* A mailbox path that ignores the task (the mutant of MailboxPath).
MailboxPathShared(task_id) == "memory/owner_mailbox/" \o "task" \o ".jsonl"

\* _mailbox_path(drive_root, task_id)
MailboxPath(task_id) == "memory/owner_mailbox/" \o task_id \o ".jsonl"

MailboxPaths ==
    {MailboxPath(t) : t \in MailboxTasks} \cup {MailboxPathShared("")} \cup {PendingPath}

NoFile == [exists |-> FALSE, lines |-> <<>>]

\* The lines of the file at `path` (none when the file does not exist).
Lines(path) == IF owner_mailbox[path].exists THEN owner_mailbox[path].lines ELSE <<>>

\* A line of the mailbox is read by a drain with the set `seen` (the mutant of
\* Unseen reads every line again).
UnseenOrSeen(m, seen) == TRUE

\* A line of the mailbox whose msg_id is not in `seen`.
Unseen(m, seen) == m.msg_id \notin seen

RECURSIVE FieldOf(_, _)
FieldOf(lines, f) ==
    IF lines = <<>> THEN <<>>
    ELSE <<IF f = "text" THEN Head(lines).text ELSE Head(lines).msg_id>>
             \o FieldOf(Tail(lines), f)

\* write_owner_message(drive_root, text, task_id, msg_id): one line is appended to
\* the task's file, created if missing; the msg_id is fresh.
WriteOwnerMessage(task_id, text) ==
    /\ msg_ids_used < MaxMailboxWrites
    /\ LET line == [text |-> text, msg_id |-> msg_ids_used + 1]
       IN  /\ owner_mailbox' =
                 [owner_mailbox EXCEPT ![MailboxPath(task_id)] =
                      [exists |-> TRUE, lines |-> Append(Lines(MailboxPath(task_id)), line)]]
           /\ written' = [written EXCEPT ![task_id] = Append(@, line)]
    /\ msg_ids_used' = msg_ids_used + 1
    /\ UNCHANGED <<seen_ids, lastDrain>>

\* A drain that empties the mailbox it has read (the mutant of DrainOwnerMessages).
DrainAndClear(task_id, with_seen) ==
    /\ LET seen == IF with_seen THEN seen_ids[task_id] ELSE {}
           fresh == SelectSeq(Lines(MailboxPath(task_id)), LAMBDA m : Unseen(m, seen))
       IN  /\ lastDrain' = [task |-> task_id, with_seen |-> with_seen,
                            texts |-> FieldOf(fresh, "text"),
                            ids |-> FieldOf(fresh, "msg_id"),
                            odd |-> ~lastDrain.odd]
           /\ seen_ids' = IF with_seen
                          THEN [seen_ids EXCEPT ![task_id] =
                                    @ \cup {fresh[k].msg_id : k \in DOMAIN fresh}]
                          ELSE seen_ids
    /\ owner_mailbox' = [owner_mailbox EXCEPT ![MailboxPath(task_id)].lines = <<>>]
    /\ UNCHANGED <<msg_ids_used, written>>

\* drain_owner_messages(drive_root, task_id, seen_ids): the texts of the lines not
\* yet seen, in file order; their msg_ids are added to the set. Without a set
\* (with_seen false) every line is returned.
DrainOwnerMessages(task_id, with_seen) ==
    /\ LET seen == IF with_seen THEN seen_ids[task_id] ELSE {}
           fresh == SelectSeq(Lines(MailboxPath(task_id)), LAMBDA m : Unseen(m, seen))
       IN  /\ lastDrain' = [task |-> task_id, with_seen |-> with_seen,
                            texts |-> FieldOf(fresh, "text"),
                            ids |-> FieldOf(fresh, "msg_id"),
                            odd |-> ~lastDrain.odd]
           /\ seen_ids' = IF with_seen
                          THEN [seen_ids EXCEPT ![task_id] =
                                    @ \cup {fresh[k].msg_id : k \in DOMAIN fresh}]
                          ELSE seen_ids
    /\ UNCHANGED <<owner_mailbox, msg_ids_used, written>>

\* cleanup_task_mailbox(drive_root, task_id): the task's file is removed.
CleanupTaskMailbox(task_id) ==
    /\ owner_mailbox[MailboxPath(task_id)].exists
    /\ owner_mailbox' = [owner_mailbox EXCEPT ![MailboxPath(task_id)] = NoFile]
    /\ written' = [written EXCEPT ![task_id] = <<>>]
    /\ UNCHANGED <<seen_ids, msg_ids_used, lastDrain>>

notMailbox == <<gitVars, lockVars, launcherVars, supVars, serverVars, colabVars, cmdVars,
                imgVars, pidVars, extVars, syncVars>>

MailboxWrite ==
    /\ \E t \in MailboxTasks, x \in MailboxTexts : WriteOwnerMessage(t, x)
    /\ UNCHANGED notMailbox

MailboxDrain ==
    /\ \E t \in MailboxTasks, b \in BOOLEAN : DrainOwnerMessages(t, b)
    /\ UNCHANGED notMailbox

MailboxCleanup ==
    /\ \E t \in MailboxTasks : CleanupTaskMailbox(t)
    /\ UNCHANGED notMailbox

InitMailbox ==
    /\ owner_mailbox = [p \in MailboxPaths |-> NoFile]
    /\ seen_ids = [t \in MailboxTasks |-> {}]
    /\ msg_ids_used = 0
    /\ written = [t \in MailboxTasks |-> <<>>]
    /\ lastDrain = [task |-> "", with_seen |-> FALSE, texts |-> <<>>, ids |-> <<>>,
                    odd |-> FALSE]

NextMailbox == MailboxWrite \/ MailboxDrain \/ MailboxCleanup

(***************************************************************************)
(* Colab supervisor with a conversation under way: texts and photos        *)
(***************************************************************************)
\* What the owner sends next: a text, a photo, a photo with a caption.
BusyMessages ==
    {[text |-> "cancel", caption |-> "", photo |-> FALSE],
     [text |-> "", caption |-> "", photo |-> TRUE],
     [text |-> "", caption |-> "see", photo |-> TRUE]}

\* The owner sends a text or a photo to the bot.
ColabOwnerSendsMessage(m) ==
    /\ Len(inbox) < MaxColabMsgs + 1 /\ time_now <= MaxSendClock
    /\ inbox' = Append(inbox, [text |-> m.text, caption |-> m.caption, photo |-> m.photo,
                               at |-> time_now, viaMain |-> FALSE,
                               viaWindow |-> FALSE, entries |-> 0])
    /\ UNCHANGED <<time_now, offset, cpc, cwake, cupdates, wupdates, batch_start,
                   batch_deadline, batched_texts, batch_state, batch_dirty, winOpen,
                   winMsgs, winFirstPoll, supVars, cmdVars, imgVars, notColab>>

ColabOwnerSendsAny == \E m \in BusyMessages : ColabOwnerSendsMessage(m)

\* The owner's first message "do X" arrived alone; its window closed at the first
\* poll, the dispatch thread was started and the main loop went to sleep.
InitColabBusy ==
    /\ InitGit /\ InitExt /\ InitLock /\ InitSync /\ InitPidLock /\ InitLauncher /\ InitServer /\ InitCommands
    /\ InitMailbox
    /\ PENDING = <<>>
    /\ session_id = 1
    /\ tg_offset = InitialTgOffset + 1
    /\ workersAlive = TRUE
    /\ kills = 0
    /\ agent_busy = FALSE
    /\ chatThreads = <<[st |-> "started", text |-> "do X", img |-> FALSE]>>
    /\ injected = <<>>
    /\ panicMsgs = 0
    /\ panic_flag = FALSE
    /\ lastSnapshot = "main_loop"
    /\ snapAfterPanic = FALSE
    /\ procExit = -1
    /\ safe_restart_ok = "none"
    /\ ownerRestart = [accepted |-> FALSE, sessionBefore |-> 0, tgBefore |-> 0]
    /\ evtRestartAccepted = FALSE
    /\ time_now = POLL_SLEEP_TICKS
    /\ inbox = <<[text |-> "do X", caption |-> "", photo |-> FALSE, at |-> 0,
                  viaMain |-> TRUE, viaWindow |-> FALSE, entries |-> 1]>>
    /\ offset = InitialTgOffset + 1
    /\ cpc = "tick"
    /\ cwake = POLL_SLEEP_TICKS + LOOP_SLEEP_TICKS
    /\ cupdates = <<>>
    /\ wupdates = <<>>
    /\ batch_start = 0
    /\ batch_deadline = 0
    /\ batched_texts = <<>>
    /\ batch_state = [session_id |-> 0, tg_offset |-> 0,
                      evolution_mode_enabled |-> FALSE]
    /\ batch_dirty = FALSE
    /\ winOpen = 0
    /\ winMsgs = <<>>
    /\ winFirstPoll = -1

NextColabBusy ==
    \/ ColabOwnerSendsAny
    \/ ColabTime
    \/ ColabTickPolls
    \/ ColabPollFails
    \/ ColabHandlesUpdate
    \/ ColabWindowSleeps
    \/ ColabWindowExpires
    \/ ColabWindowPolls
    \/ ColabWindowHandlesExtra
    \/ ColabWindowExtrasDone
    \/ ColabTickEnds
    \/ ColabChatThreadBegins
    \/ ColabChatThreadEnds

(***************************************************************************)
(* Owner commands in either supervisor loop, with restarts                 *)
(***************************************************************************)
\* Texts of the owner in this part: every command, and one plain text.
CommandTexts == DualPathTexts \cup {"/panic", "/restart", "do X"}

\* The owner types a text into the desktop UI.
ServerOwnerSendsCommand(t) ==
    /\ procExit = -1 /\ spc # "off" /\ ownerSent < MaxCommandMsgs
    /\ bridgeQ' = Append(bridgeQ, t)
    /\ ownerSent' = ownerSent + 1
    /\ UNCHANGED <<spc, crash_count, backoff, restart_requested, eventQ, updates,
                   eventsPublished, supVars, cmdVars, notServer>>

\* The owner sends a text to the Telegram bot.
ColabOwnerSendsCommand(t) ==
    /\ cpc # "off" /\ Len(inbox) < MaxCommandMsgs /\ time_now <= MaxCommandSendClock
    /\ inbox' = Append(inbox, [text |-> t, caption |-> "", photo |-> FALSE,
                               at |-> time_now, viaMain |-> FALSE,
                               viaWindow |-> FALSE, entries |-> 0])
    /\ UNCHANGED <<time_now, offset, cpc, cwake, cupdates, wupdates, batch_start,
                   batch_deadline, batched_texts, batch_state, batch_dirty, winOpen,
                   winMsgs, winFirstPoll, supVars, cmdVars, imgVars, notColab>>

OwnerSendsCommand ==
    \E t \in CommandTexts : ServerOwnerSendsCommand(t) \/ ColabOwnerSendsCommand(t)

\* The launcher starts the server again after exit code 42: _run_supervisor
\* initialises, restores the queue and restores the background consciousness
\* from state; the chat agent of the old process is gone.
ServerStartsAgain ==
    /\ spc # "off" /\ procExit = RESTART_EXIT_CODE
    /\ procExit' = -1
    /\ spc' = "tick"
    /\ restart_requested' = FALSE
    /\ crash_count' = 0 /\ backoff' = 0
    /\ eventQ' = <<>> /\ bridgeQ' = <<>> /\ updates' = <<>>
    /\ workersAlive' = TRUE
    /\ agent_busy' = FALSE /\ chatThreads' = <<>> /\ injected' = <<>>
    /\ lastSnapshot' = "startup"
    /\ server_consciousness_running' = bg_consciousness_enabled
    /\ UNCHANGED <<ownerSent, eventsPublished, session_id, tg_offset, kills, panicMsgs,
                   panic_flag, snapAfterPanic, safe_restart_ok, ownerRestart,
                   evtRestartAccepted, evolution_mode_enabled, bg_consciousness_enabled,
                   colab_consciousness_running, PENDING, statusReplies, notServerPause>>
    /\ server_consciousness_paused' = FALSE

\* os.execv has replaced the Colab launcher: the script runs from its top, unlinks
\* the legacy owner file and every file of the mailbox directory, reads tg_offset
\* from state and starts the background consciousness.
ColabStartsAgain ==
    /\ cpc # "off" /\ procExit = RE_EXECUTED
    /\ procExit' = -1
    /\ cpc' = "tick"
    /\ cwake' = time_now
    /\ offset' = tg_offset
    /\ cupdates' = <<>> /\ wupdates' = <<>>
    /\ batch_start' = 0 /\ batch_deadline' = 0 /\ batched_texts' = <<>>
    /\ batch_state' = [session_id |-> 0, tg_offset |-> 0,
                       evolution_mode_enabled |-> FALSE]
    /\ batch_dirty' = FALSE /\ batched_image' = FALSE
    /\ winOpen' = 0 /\ winMsgs' = <<>> /\ winFirstPoll' = -1
    /\ workersAlive' = TRUE
    /\ agent_busy' = FALSE /\ chatThreads' = <<>> /\ injected' = <<>>
    /\ lastSnapshot' = "startup"
    /\ colab_consciousness_running' = TRUE
    /\ owner_mailbox' = [p \in MailboxPaths |-> NoFile]
    /\ UNCHANGED <<time_now, inbox, session_id, tg_offset, kills, panicMsgs, panic_flag,
                   snapAfterPanic, safe_restart_ok, ownerRestart, evtRestartAccepted,
                   evolution_mode_enabled, bg_consciousness_enabled,
                   server_consciousness_running, PENDING, statusReplies, photoNotices,
                   seen_ids, msg_ids_used, written, lastDrain, gitVars, lockVars,
                   launcherVars, serverVars, pidVars, diagVars, ownerVars, watchVars,
                   tickVars,
                   server_consciousness_paused, syncVars>>
    /\ colab_consciousness_paused' = FALSE

\* One of the two supervisors runs; the queue was restored from the snapshot.
InitOneSupervisor ==
    /\ InitGit /\ InitExt /\ InitLock /\ InitSync /\ InitPidLock /\ InitLauncher /\ InitSup /\ InitCommands /\ InitMailbox
    /\ PENDING \in {<<>>, <<"task">>}
    /\ spc \in {"tick", "off"}
    /\ cpc = IF spc = "off" THEN "tick" ELSE "off"
    /\ crash_count = 0 /\ backoff = 0 /\ restart_requested = FALSE
    /\ eventQ = <<>> /\ bridgeQ = <<>> /\ updates = <<>>
    /\ ownerSent = 0 /\ eventsPublished = 0
    /\ time_now = 0 /\ inbox = <<>> /\ offset = InitialTgOffset /\ cwake = 0
    /\ cupdates = <<>> /\ wupdates = <<>>
    /\ batch_start = 0 /\ batch_deadline = 0 /\ batched_texts = <<>>
    /\ batch_state = [session_id |-> 0, tg_offset |-> 0,
                      evolution_mode_enabled |-> FALSE]
    /\ batch_dirty = FALSE
    /\ winOpen = 0 /\ winMsgs = <<>> /\ winFirstPoll = -1

\* The steps of both loops, without failing ticks or polls, worker events and
\* API calls.
LoopSteps ==
    \/ ServerTickBegins
    \/ ServerDrainEnds
    \/ ServerTickSteps
    \/ ServerHandlesUpdate
    \/ ServerTickEnds
    \/ ServerChatThreadBegins
    \/ ServerChatThreadEnds
    \/ ColabTime
    \/ ColabTickPolls
    \/ ColabHandlesUpdate
    \/ ColabWindowSleeps
    \/ ColabWindowExpires
    \/ ColabWindowPolls
    \/ ColabWindowHandlesExtra
    \/ ColabWindowExtrasDone
    \/ ColabTickEnds

NextCommands ==
    \/ OwnerSendsCommand
    \/ LoopSteps
    \/ MainExitsForRestart
    \/ ServerStartsAgain
    \/ ColabStartsAgain

\* The owner sends /evolve commands only.
OwnerSendsEvolve ==
    \E t \in EvolveTexts : ServerOwnerSendsCommand(t) \/ ColabOwnerSendsCommand(t)

NextEvolve == OwnerSendsEvolve \/ LoopSteps

\* Texts that are no command as listed: another letter case, more characters after
\* the command's; with the command itself and an ordinary message.
NearCommandTexts == {"/status", "/Status", "/statusquo", "do X"}

OwnerSendsNearCommand ==
    \E t \in NearCommandTexts : ServerOwnerSendsCommand(t) \/ ColabOwnerSendsCommand(t)

NextNearCommands == OwnerSendsNearCommand \/ LoopSteps

\* The owner sends ordinary messages, and a chat thread may fail to start.
OwnerSendsText == ServerOwnerSendsCommand("do X") \/ ColabOwnerSendsCommand("do X")

\* The chat threads of the supervisor that runs.
ChatThreadSteps ==
    \/ spc # "off" /\ (ServerChatThreadBegins \/ ServerChatThreadEnds)
    \/ cpc # "off" /\ (ColabChatThreadBegins \/ ColabChatThreadEnds)

NextPause ==
    \/ OwnerSendsText
    \/ ServerTickBegins
    \/ ServerDrainEnds
    \/ ServerTickSteps
    \/ ServerHandlesUpdate
    \/ ServerThreadStartFails
    \/ ServerTickEnds
    \/ ColabTime
    \/ ColabTickPolls
    \/ ColabHandlesUpdate
    \/ ColabWindowSleeps
    \/ ColabWindowExpires
    \/ ColabWindowExpiresThreadFails
    \/ ColabWindowPolls
    \/ ColabWindowHandlesExtra
    \/ ColabWindowExtrasDone
    \/ ColabTickEnds
    \/ ChatThreadSteps

\* The owner sends /restart only, while messages are written to task mailboxes;
\* no conversation starts, so the loops take their tick and restart steps only.
OwnerSendsRestart ==
    ServerOwnerSendsCommand("/restart") \/ ColabOwnerSendsCommand("/restart")

NextMailboxRestart ==
    \/ OwnerSendsRestart
    \/ MailboxWrite
    \/ ServerTickBegins
    \/ ServerDrainEnds
    \/ ServerTickSteps
    \/ ServerHandlesUpdate
    \/ ServerTickEnds
    \/ ColabTime
    \/ ColabTickPolls
    \/ ColabHandlesUpdate
    \/ ColabTickEnds
    \/ MainExitsForRestart
    \/ ServerStartsAgain
    \/ ColabStartsAgain

(***************************************************************************)
(* Specifications                                                          *)
(***************************************************************************)
vars == <<gitVars, lockVars, launcherVars, supVars, serverVars, colabVars, cmdVars,
          imgVars, mailVars, pidVars, extVars, syncVars>>

Init ==
    /\ InitGit /\ InitExt /\ InitLock /\ InitSync /\ InitPidLock /\ InitLauncher /\ InitSup /\ InitServer /\ InitColab
    /\ InitCommands /\ PENDING = <<>> /\ InitMailbox

SpecGit == Init /\ [][NextGit]_vars

SpecLock == Init /\ [][NextLock]_vars

SpecLauncher == Init /\ [][NextLauncher]_vars

SpecServer == Init /\ [][NextServer]_vars

SpecColab == Init /\ [][NextColab]_vars

SpecColabBusy == InitColabBusy /\ [][NextColabBusy]_vars

SpecCommands == InitOneSupervisor /\ [][NextCommands]_vars

SpecEvolve == InitOneSupervisor /\ [][NextEvolve]_vars

SpecMailbox == Init /\ [][NextMailbox]_vars

\* Any installation: with or without portalocker, on either kind of platform.
InitAnyInstallation ==
    /\ InitGit /\ InitExt /\ InitLock /\ InitSync /\ InitLauncher /\ InitSup /\ InitServer /\ InitColab
    /\ InitCommands /\ PENDING = <<>> /\ InitMailbox
    /\ portalocker \in BOOLEAN
    /\ pidPlatform \in {"posix", "nt"}
    /\ PID_FILE = 0
    /\ filesCreated = 0
    /\ lock_fd = [i \in Instances |-> 0]
    /\ osLock = [i \in Instances |-> 0]
    /\ ipc = [i \in Instances |-> "off"]

SpecPidLock == InitAnyInstallation /\ [][NextPidLock]_vars

\* The first launch: no REPO_DIR yet, bootstrap_repo still to run.
InitFirstLaunch ==
    /\ InitGit /\ InitExt /\ InitLock /\ InitPidLock /\ InitLauncher /\ InitSup /\ InitServer
    /\ InitColab /\ InitCommands /\ PENDING = <<>> /\ InitMailbox
    /\ REPO_DIR = "absent"
    /\ worktree = [f \in ProtectedFiles |-> "absent"]
    /\ committed = [f \in ProtectedFiles |-> "absent"]
    /\ sync_commits = 0
    /\ bootstrapped = FALSE

SpecSync == InitFirstLaunch /\ [][NextSync]_vars

SpecNearCommands == InitOneSupervisor /\ [][NextNearCommands]_vars

SpecPause == InitOneSupervisor /\ [][NextPause]_vars

SpecMailboxRestart == InitOneSupervisor /\ [][NextMailboxRestart]_vars

\* The main thread's _check_restart polls the flag every 0.5 s and is never starved.
SpecServerLive == SpecServer /\ WF_vars(MainExitsForRestart)

\* The main loop with any diagnostics configuration.
InitAnyDiagnostics ==
    /\ InitGit /\ InitLock /\ InitSync /\ InitPidLock /\ InitLauncher /\ InitSup
    /\ InitServer /\ InitColab /\ InitCommands /\ PENDING = <<>> /\ InitMailbox
    /\ InitDiagAny /\ InitOwner /\ InitPause /\ InitWatch /\ InitTick

SpecDiag == InitAnyDiagnostics /\ [][NextDiag]_vars

\* The lifecycle thread runs on: an iteration that can be taken is taken.
SpecCrashLoop == Init /\ [][NextCrashLoop]_vars /\ WF_vars(AgentCrashes)

\* A fresh state file, or one that names the owner already.
InitAnyOwner ==
    /\ InitGit /\ InitLock /\ InitSync /\ InitPidLock /\ InitLauncher /\ InitSup
    /\ InitServer /\ InitColab /\ InitCommands /\ PENDING = <<>> /\ InitMailbox
    /\ InitDiag /\ InitPause /\ InitWatch /\ InitTick
    /\ owner_id \in {NoOwner, OwnerUser}
    /\ senders = <<>>

SpecOwners == InitAnyOwner /\ [][NextOwners]_vars

\* A supervisor starts with evolution mode on or off and the queue restored from
\* the snapshot.
InitAnyQueue ==
    /\ InitGit /\ InitExt /\ InitLock /\ InitSync /\ InitPidLock /\ InitLauncher /\ InitSup
    /\ InitServer /\ InitColab /\ InitMailbox
    /\ evolution_mode_enabled \in BOOLEAN
    /\ bg_consciousness_enabled = FALSE
    /\ server_consciousness_running = FALSE
    /\ colab_consciousness_running = TRUE
    /\ statusReplies = 0
    /\ batched_image = FALSE
    /\ photoNotices = 0
    /\ PENDING \in {<<>>, <<"task">>}

SpecTick == InitAnyQueue /\ [][NextTick]_vars

\* The watchdog thread beside a chat agent that takes tasks.
SpecWatchdog == Init /\ [][NextWatchdog]_vars

\* The supervisor thread and the main thread are never starved: each step of the
\* tick that stays possible is taken.
SpecDrain ==
    /\ Init /\ [][NextDrain]_vars
    /\ WF_vars(ServerTickBegins) /\ WF_vars(ServerDrainsEvent) /\ WF_vars(ServerDrainEnds)
    /\ WF_vars(ServerTickSteps) /\ WF_vars(ServerTickEnds) /\ WF_vars(MainExitsForRestart)

(***************************************************************************)
(* Claims                                                                  *)
(***************************************************************************)
\* A commit tool call has run the test gate and the tests failed.
GateFailed ==
    /\ gitLast.tool # "" /\ gitLast.fails = "none"
    /\ ~gitLast.skip_tests /\ gitLast.tests_failed

\* C2: when the pre-commit test run of repo_write_commit or repo_commit (skip_tests
\* false) fails, the commit just made is undone (HEAD is back where it was) and the
\* failure text is returned, unless it is the third consecutive failure: then the
\* commit stands, the result begins with "OK:" and the counter is 0.
C2_TestFailureRevertsUnlessThird ==
    GateFailed =>
        IF gitLast.failuresBefore + 1 = 3
        THEN /\ head = gitLast.headBefore + 1
             /\ StartsWithOK(gitResult)
             /\ consecutive_test_failures = 0
        ELSE /\ head = gitLast.headBefore
             /\ gitResult = R_TESTS_FAILED
             /\ consecutive_test_failures = gitLast.failuresBefore + 1

\* C2 witness: a third consecutive failure was reached and the commit was kept.
C2_Witness ==
    GateFailed /\ gitLast.failuresBefore = 2 /\ head = gitLast.headBefore + 1

\* C3: the git lock serializes all mutations: between a caller's successful
\* _acquire_git_lock and its _release_git_lock no other caller's acquire returns,
\* so at most one caller holds the lock at any time.
C3_LockMutualExclusion ==
    Cardinality({p \in LockProcs : lockPc[p] = "holding"}) <= 1

\* C4: in the lifecycle loop, once an agent exit with code 42 has been handled and
\* while no shutdown is requested, the loop is back at its head, where the step
\* it takes is start_agent; once an exit with code 99 has been handled the
\* shutdown event is set, the loop has ended and no agent is started after it.
C4_RestartOn42PanicOn99 ==
    /\ panicAt # -1 =>
          /\ shutdown_event
          /\ lpc = "done"
          /\ agentsStarted = panicAt
    /\ (/\ exit_code = RESTART_EXIT_CODE
        /\ agentsStarted = lastExit.started
        /\ ~shutdown_event) =>
              /\ lpc = "loop_head"
              /\ agentsStarted < MaxAgentStarts => ENABLED StartAgent

\* C4 witness: an agent exited with 42 and a new one was started, which exited
\* with 99, after which the loop has ended.
C4_Witness ==
    /\ panicAt = 2 /\ exit_code = PANIC_EXIT_CODE
    /\ lpc = "done" /\ agentsStarted = 2 /\ crash_times = <<>>

\* C1: at most one direct-chat conversation is running at any time: the supervisor
\* never starts a chat dispatch thread while a previously started one has not
\* finished.
C1_AtMostOneChatThread ==
    Cardinality(LiveChatThreads) <= 1

\* C5: after three consecutive crashes of the supervisor tick the loop is left
\* with the restart requested, so that the process exits with code 42; before
\* that the crash is followed by a backoff of min(30, 2^n) seconds.
C5_ThreeCrashesExitWith42 ==
    /\ crash_count \in 0..MAX_SUPERVISOR_CRASHES
    /\ (spc = "tick" /\ crash_count > 0) => backoff = Backoff(crash_count)
    /\ spc = "returned" => (restart_requested \/ procExit = RESTART_EXIT_CODE)

\* C6: when an owner /restart was accepted by safe_restart and the process has
\* ended with code 42, the persisted session_id differs from the one before the
\* command and the persisted tg_offset is the one before the command.
C6_OwnerRestartNewSession ==
    (ownerRestart.accepted /\ procExit = RESTART_EXIT_CODE) =>
        /\ session_id # ownerRestart.sessionBefore
        /\ tg_offset = ownerRestart.tgBefore

\* The drain step that takes a restart_request event off the bus.
RestartRequestStep ==
    /\ procExit = -1 /\ spc = "drain"
    /\ eventQ # <<>> /\ Head(eventQ) = "restart_request"
    /\ eventQ' = Tail(eventQ)

C7_PanicExitsWith99 ==
    panicMsgs > 0 =>
        /\ panicMsgs = 1
        /\ ~workersAlive
        /\ procExit = PANIC_EXIT_CODE
        /\ ~snapAfterPanic

\* The text is a command that is never batched (/panic, /restart).
TerminalCommand(text) ==
    \/ StartsWith(Lowered(text), "/panic")
    \/ StartsWith(Lowered(text), "/restart")

\* The texts, in arrival order, of the messages a..b that are not terminal commands.
RECURSIVE PlainTextsIn(_, _)
PlainTextsIn(a, b) ==
    IF b < a THEN <<>>
    ELSE IF TerminalCommand(inbox[b].text) THEN PlainTextsIn(a, b - 1)
    ELSE Append(PlainTextsIn(a, b - 1), inbox[b].text)

\* Index of the last message the main thread has consumed.
LastConsumed == offset - InitialTgOffset

\* The step that ends a batch window.
WindowCloseStep ==
    /\ cpc \in {"window", "wsleep"} /\ cpc' = "updates"

\* Every owner message is handled and none can follow within 1.5 s of the last.
BurstOver ==
    /\ procExit = -1 /\ cpc = "tick" /\ GetUpdates(offset) = <<>>
    /\ inbox # <<>> /\ time_now - inbox[Len(inbox)].at >= BATCH_WINDOW_TICKS

WindowPollStep ==
    /\ cpc = "wsleep" /\ cpc' # "wsleep"

BusyRoutingStep ==
    /\ agent_busy /\ procExit' = -1
    /\ \/ /\ cpc = "updates" /\ cupdates # <<>> /\ cupdates' = Tail(cupdates)
          /\ ~TerminalCommand(inbox[Head(cupdates)].text)
       \/ WindowCloseStep

\* C11: while the chat agent is busy, an owner text is handed over by one
\* inject_message call that carries that single message, no dispatch is started,
\* and a photo draws the task-in-progress notice without reaching the agent.
C11_BusyInjectsSingleMessages ==
    [][BusyRoutingStep =>
         /\ chatThreads' = chatThreads
         /\ \/ injected' = injected
            \/ \E j \in DOMAIN inbox : \E t \in {inbox[j].text, inbox[j].caption} :
                  /\ t # ""
                  /\ injected' = Append(injected, Forwarded(t))
         /\ (cpc = "updates" /\ inbox[Head(cupdates)].text # "") =>
                injected' = Append(injected, Forwarded(inbox[Head(cupdates)].text))
         /\ (cpc = "updates" /\ inbox[Head(cupdates)].photo) =>
                photoNotices' = photoNotices + 1
         /\ (cpc # "updates" /\ batched_image) => photoNotices' = photoNotices + 1]_vars

\* The owner text the supervisor loop is about to handle ("" when it is not
\* about to handle one).
HandledText ==
    IF spc = "updates" /\ updates # <<>> THEN Head(updates)
    ELSE IF cpc = "updates" /\ cupdates # <<>> THEN inbox[Head(cupdates)].text
    ELSE IF cpc = "wextras" /\ wupdates # <<>> THEN inbox[Head(wupdates)].text
    ELSE ""

\* The step in which a supervisor loop handles one owner text.
HandlingStep ==
    /\ procExit = -1
    /\ \/ spc = "updates" /\ updates # <<>> /\ updates' = Tail(updates)
       \/ cpc = "updates" /\ cupdates # <<>> /\ cupdates' = Tail(cupdates)
       \/ cpc = "wextras" /\ wupdates # <<>> /\ wupdates' = Tail(wupdates)

\* The step hands the text t on to the chat agent: injected, dispatched, or put
\* into the batch that is dispatched when the window closes.
HandedOn(t) ==
    \/ injected' = Append(injected, t)
    \/ chatThreads' = Append(chatThreads, [st |-> "started", text |-> t, img |-> FALSE])
    \/ batched_texts' = <<t>>
    \/ batched_texts' = Append(batched_texts, t)

\* The step hands nothing on to the chat agent.
NothingHandedOn ==
    /\ injected' = injected
    /\ chatThreads' = chatThreads
    /\ batched_texts' = batched_texts

\* The note that describes what was done for the dual-path command `lowered`.
NoteFor(lowered) ==
    IF StartsWith(lowered, "/status") THEN StatusNote
    ELSE IF StartsWith(lowered, "/review") THEN ReviewNote
    ELSE IF StartsWith(lowered, "/evolve") THEN EvolveNote(TurnOn(lowered))
    ELSE BgNote(Action(lowered, "status"))

\* The step performs the dual-path command `lowered`.
Performed(lowered) ==
    IF StartsWith(lowered, "/status") THEN statusReplies' = statusReplies + 1
    ELSE IF StartsWith(lowered, "/review") THEN PENDING' = QueueReviewTask(PENDING)
    ELSE IF StartsWith(lowered, "/evolve") THEN evolution_mode_enabled' = TurnOn(lowered)
    ELSE LET running == IF spc = "off" THEN colab_consciousness_running'
                        ELSE server_consciousness_running'
         IN  /\ Action(lowered, "status") \in {"start", "on", "1"} => running
             /\ Action(lowered, "status") \in {"stop", "off", "0"} => ~running

\* C12: a dual-path command is performed and the owner's text goes on to the chat
\* agent with the note prepended; a terminal command hands nothing on.
C12_DualPathForwardedWithNote ==
    [][HandlingStep =>
         /\ HandledText \in DualPathTexts =>
               /\ Performed(Lowered(HandledText))
               /\ HandedOn(NoteFor(Lowered(HandledText)) \o HandledText)
         /\ TerminalCommand(HandledText) => NothingHandedOn]_vars

\* C13: handling /evolve off, /evolve stop or /evolve 0 leaves evolution mode off
\* in state, no evolution task pending, every other pending task still pending and
\* the queue snapshot persisted; any other /evolve turns the mode on and leaves
\* the pending list alone.
C13_EvolveOffPurgesEvolutionTasks ==
    [][(HandlingStep /\ HandledText \in EvolveTexts) =>
         IF Action(Lowered(HandledText), "") \in {"off", "stop", "0"}
         THEN /\ evolution_mode_enabled' = FALSE
              /\ \A k \in DOMAIN PENDING' : PENDING'[k] # "evolution"
              /\ SelectSeq(PENDING', LAMBDA t : t # "evolution")
                     = SelectSeq(PENDING, LAMBDA t : t # "evolution")
              /\ lastSnapshot' = "evolve_off"
         ELSE /\ evolution_mode_enabled' = TRUE
              /\ PENDING' = PENDING]_vars

\* /evolve off has been handled with a task pending: the task is still pending.
C13_Witness ==
    /\ lastSnapshot = "evolve_off"
    /\ ~evolution_mode_enabled
    /\ PENDING = <<"task">>

\* The background consciousness of the supervisor that runs.
ConsciousnessRunning ==
    IF spc = "off" THEN colab_consciousness_running ELSE server_consciousness_running

\* The step in which the supervisor has started again after a restart.
StartedAgainStep == procExit \in {RESTART_EXIT_CODE, RE_EXECUTED} /\ procExit' = -1

\* C14: the /bg choice survives a restart: when startup completes the background
\* consciousness runs if the owner's last choice before the restart had started
\* it and does not run if the last choice had stopped it (before the restart it
\* runs exactly as last chosen).
C14_BgChoiceSurvivesRestart ==
    [][StartedAgainStep => (ConsciousnessRunning' = ConsciousnessRunning)]_vars

\* The step is a drain_owner_messages call.
DrainStep == lastDrain' # lastDrain

\* The step is a write_owner_message call.
WriteStep == msg_ids_used' # msg_ids_used

\* C15: a drain for a task returns exactly the texts written with that task id, in
\* write order (none when nothing was written for it), whatever was written for
\* other tasks.
C15_DrainReturnsOwnTaskOnly ==
    [][(DrainStep /\ ~lastDrain'.with_seen) =>
          lastDrain'.texts = FieldOf(written[lastDrain'.task], "text")]_vars

\* Task A was drained and got its one message while task B has messages too.
C15_Witness ==
    /\ lastDrain.task = "taskA" /\ ~lastDrain.with_seen
    /\ lastDrain.texts = <<"for A">>
    /\ written["taskB"] # <<>>

WorkersRestartStep ==
    \/ kills' # kills
    \/ ~workersAlive /\ workersAlive'
    \/ StartedAgainStep

\* C18: a restart of the workers, a restart by /restart included, leaves every
\* task's mailbox with the messages written to it, so they can still be drained.
C18_MailboxesSurviveRestarts ==
    [][WorkersRestartStep =>
          \A t \in MailboxTasks :
              owner_mailbox'[MailboxPath(t)] = owner_mailbox[MailboxPath(t)]]_vars

\* Instances for which acquire_pid_lock returned True, alive and not yet releasing.
PidLockHolders == {i \in Instances : ipc[i] = "holding"}

\* C19: at most one instance holds the PID lock at a time, every other instance's
\* acquire_pid_lock returning False while the holder is alive and has not released;
\* once no instance holds it the lock call of a new instance succeeds.
C19_SinglePidLockHolder ==
    /\ Cardinality(PidLockHolders) <= 1
    /\ \A i \in Instances :
          ipc[i] = "opened" /\ (\A j \in Instances \ {i} : ipc[j] \in {"off", "refused"})
              => ~LockedByOther(i, lock_fd[i])

\* bootstrap_repo returns at a launch.
LaunchStep == ~bootstrapped /\ bootstrapped'

\* The lifecycle loop takes its restart branch after exit code 42.
RestartBranchStep ==
    /\ launcherAlive /\ lpc = "agent_running" /\ lpc' = "loop_head"
    /\ exit_code' = RESTART_EXIT_CODE

\* The step replaces a drifted protected file by its bundled copy.
SyncChangedAFile ==
    \E f \in ProtectedFiles : worktree[f] = "drift" /\ worktree'[f] = "bundle"

\* C20: at every launch and before every restart after exit code 42 each protected
\* file of the working tree becomes identical to its bundled copy, and a commit
\* 'safety-sync: restore protected files from bundle' is created if and only if
\* the sync changed a file.
C20_ProtectedFilesSyncedAndCommitted ==
    [][(LaunchStep \/ RestartBranchStep) =>
          /\ \A f \in ProtectedFiles : worktree'[f] = "bundle"
          /\ (sync_commits' = sync_commits + 1) <=> SyncChangedAFile]_vars

\* C21: every supervisor tick terminates: the event drain, made of non-blocking
\* gets, ends and the tick goes on to timeouts, assignment and the snapshot, even
\* while workers keep publishing events during the drain.
C21_DrainEndsTickGoesOn ==
    (spc = "drain" /\ procExit = -1) ~> (spc = "steps" \/ procExit # -1)

\* Records of one type in logs/supervisor.jsonl.
DiagLog(type) == SelectSeq(supervisor_jsonl, LAMBDA r : r.type = type)

\* The step is one iteration of the main loop.
DiagTickStep == lastTick'.n = lastTick.n + 1

\* The iteration appends a record of the type.
Writes(type) == Len(DiagLog(type)') = Len(DiagLog(type)) + 1

\* C22: with diag_heartbeat_sec = 0 no heartbeat record is written; with a positive
\* value consecutive heartbeat records are at least that many seconds apart and an
\* iteration that ends that long after the last record (or with none yet) writes
\* one; with diag_slow_cycle_sec = 0 no slow-cycle record is written, otherwise one
\* is written for exactly the iterations that last as long as the threshold.
C22_HeartbeatAndSlowCycleRecords ==
    [][DiagTickStep =>
          /\ DIAG_HEARTBEAT_SEC = 0 => ~Writes("main_loop_heartbeat")
          /\ DIAG_HEARTBEAT_SEC > 0 =>
                (Writes("main_loop_heartbeat")
                    <=> lastTick'.ended - last_diag_heartbeat_ts >= 2 * DIAG_HEARTBEAT_SEC)
          /\ \A i \in 2..Len(DiagLog("main_loop_heartbeat")') :
                DiagLog("main_loop_heartbeat")'[i].ts
                    - DiagLog("main_loop_heartbeat")'[i - 1].ts >= 2 * DIAG_HEARTBEAT_SEC
          /\ DIAG_SLOW_CYCLE_SEC = 0 => ~Writes("main_loop_slow_cycle")
          /\ DIAG_SLOW_CYCLE_SEC > 0 =>
                (Writes("main_loop_slow_cycle")
                    <=> lastTick'.ended - lastTick'.started >= 2 * DIAG_SLOW_CYCLE_SEC)]_vars

\* The step carries out a supervisor command.
CommandCarriedOut ==
    \/ statusReplies' # statusReplies
    \/ kills' # kills
    \/ panic_flag' # panic_flag
    \/ PENDING' # PENDING
    \/ evolution_mode_enabled' # evolution_mode_enabled

\* C23: commands are matched as byte-exact text: a text that is not exactly a
\* command with one of its listed arguments (it only begins with the command's
\* characters, or differs in letter case) triggers no supervisor command and goes
\* to the chat agent as an ordinary message.
C23_CommandsAreByteExact ==
    [][(HandlingStep /\ HandledText \notin CommandTexts) =>
          /\ ~CommandCarriedOut
          /\ HandedOn(HandledText)]_vars

\* C24: a state change persisted by a supervisor command handled inside the batch
\* window (evolution_mode_enabled written by /evolve) is still in the persisted
\* state once the window has closed and its own state save has run.
C24_WindowSaveKeepsCommandState ==
    [][WindowCloseStep => evolution_mode_enabled' = evolution_mode_enabled]_vars

\* C25: each owner update is handled at most once within a supervisor run: its
\* text enters at most one prompt, never both a batch merged by the window and a
\* dispatch or injection by the outer update loop.
C25_EachUpdateHandledOnce ==
    \A j \in DOMAIN inbox : inbox[j].entries <= 1

\* A restart was accepted in this run: safe_restart succeeded, the workers were
\* killed and the restart flag is set, the process still running.
RestartAccepted ==
    /\ restart_requested /\ procExit = -1
    /\ (evtRestartAccepted \/ ownerRestart.accepted)

\* The tick's assign_tasks took a task off PENDING for a worker.
AssignsTask ==
    /\ spc = "steps" /\ spc' = "updates"
    /\ PENDING' \notin AfterEnqueueEvolution(PENDING, evolution_mode_enabled)

\* The update loop started a thread for a chat dispatch.
StartsChatDispatch == Len(chatThreads') > Len(chatThreads)

\* C26: once a restart has been accepted the supervisor thread assigns no further
\* pending task to a worker and starts no further chat dispatch before the
\* process exits.
C26_NoWorkAfterAcceptedRestart ==
    [][RestartAccepted => ~AssignsTask /\ ~StartsChatDispatch]_vars

\* The step is one pass of an update loop, main or window, over a message of a
\* user who is not the registered owner.
StrangerHandledStep ==
    /\ owner_id # NoOwner
    /\ \/ /\ cpc = "updates" /\ cupdates # <<>> /\ cupdates' = Tail(cupdates)
          /\ Sender(Head(cupdates)) # owner_id
       \/ /\ cpc = "wextras" /\ wupdates # <<>> /\ wupdates' = Tail(wupdates)
          /\ Sender(Head(wupdates)) # owner_id

\* All of the state but the polling offset and the two update lists being walked.
allButOffset == <<time_now, inbox, cpc, cwake, batch_start, batch_deadline, batched_texts,
                  batch_state, batch_dirty, winOpen, winMsgs, winFirstPoll, supVars,
                  cmdVars, imgVars, owner_id, senders, notColabOwner>>

\* C27: only the registered owner's messages have effect. Once owner_id is set it
\* never changes; handling a message of any other user, in the main update loop
\* or in the batch window, changes nothing but the polling offset; and only
\* messages of the owner ever enter a dispatch, an injection or a batch.
C27_OnlyOwnerMessagesHaveEffect ==
    /\ [][/\ owner_id # NoOwner => owner_id' = owner_id
          /\ StrangerHandledStep => UNCHANGED allButOffset]_vars
    /\ [](\A i \in DOMAIN inbox : inbox[i].entries > 0 => Sender(i) = owner_id)

\* The owner's message opened a window, whose poll fetched and passed over a
\* message of another user; the owner's text alone was dispatched.
C27_Witness ==
    /\ owner_id # NoOwner /\ cpc = "tick"
    /\ \E i, j \in DOMAIN inbox :
          /\ Sender(i) # owner_id /\ inbox[i].viaWindow /\ offset > UpdateId(i)
          /\ inbox[i].entries = 0
          /\ Sender(j) = owner_id /\ inbox[j].entries = 1
    /\ \E k \in DOMAIN chatThreads : chatThreads[k].text = "do X"

\* The step is one whole call of a commit tool.
CommitCallStep == gitCalls' = gitCalls + 1

\* C28: between commit calls the consecutive test-failure counter is 0, 1 or 2,
\* whatever the calls, test outcomes and skip_tests values were; and every call
\* whose commit stands leaves it at 0.
C28_FailureCounterBelowThree ==
    /\ [](consecutive_test_failures \in 0..(MAX_CONSECUTIVE_FAILURES - 1))
    /\ [][CommitCallStep /\ head' > head => consecutive_test_failures' = 0]_vars

\* Two calls failed their tests and were reverted; the third failure was kept and
\* set the counter back to 0.
C28_Witness ==
    /\ gitCalls >= 3 /\ gitLast.failuresBefore = MAX_CONSECUTIVE_FAILURES - 1
    /\ gitLast.tests_failed /\ ~gitLast.skip_tests /\ gitLast.fails = "none"
    /\ head = gitLast.headBefore + 1
    /\ consecutive_test_failures = 0

\* C29: after a commit tool returns, ctx.last_push_succeeded is true exactly when
\* the returned string begins with 'OK:', and false for every other outcome.
C29_PushFlagIffResultOK ==
    [][CommitCallStep => (last_push_succeeded' <=> StartsWithOK(gitResult'))]_vars

\* The third failing call in a row returned OK with its commit kept and the flag
\* set, after a reverted call had left the flag false.
C29_Witness ==
    /\ gitResult = R_OK_SKIPPED /\ last_push_succeeded
    /\ gitLast.tests_failed /\ gitLast.failuresBefore = MAX_CONSECUTIVE_FAILURES - 1

\* C30: every commit tool call that acquired the git lock has released it when
\* it returns or raises, on every outcome; a call rejected for an empty commit
\* message never acquires it.
C30_GitLockReleasedOnEveryOutcome ==
    [][CommitCallStep =>
          /\ gitLast'.lockTaken => ~gitLockFile'
          /\ gitLast'.fails = "empty_message" =>
                ~gitLast'.lockTaken /\ gitLockFile' = gitLockFile]_vars

\* A repo_commit call took the lock and raised out of its try block, and the lock
\* file is gone.
C30_Witness ==
    /\ gitCalls >= 1 /\ gitLast.fails = "raised" /\ gitLast.lockTaken
    /\ ~gitLockFile /\ ~last_push_succeeded

\* The step handles an agent exit with the shutdown event clear.
ExitHandledStep == lpc = "agent_running" /\ lpc' # "agent_running" /\ ~shutdown_event

\* The crashes recorded less than the window before now.
RecentCrashes ==
    {i \in DOMAIN crash_times : launcherNow - crash_times[i] < CRASH_WINDOW_TICKS}

\* C31: an agent exit with a code other than 42 and 99 ends the lifecycle loop
\* exactly when it is the fifth such exit of the last 120 seconds, exits older
\* than that being forgotten; an exit with code 42 is not counted, leaves the
\* recorded crash times as they are and is followed by a restart.
C31_FiveCrashesInWindowStop ==
    [][ExitHandledStep =>
          /\ exit_code' \notin {RESTART_EXIT_CODE, PANIC_EXIT_CODE} =>
                /\ lpc' = "done" <=> Cardinality(RecentCrashes) + 1 >= MAX_CRASH_RESTARTS
                /\ Len(crash_times') = Cardinality(RecentCrashes) + 1
                /\ \A k \in DOMAIN crash_times' :
                       launcherNow - crash_times'[k] < CRASH_WINDOW_TICKS
          /\ exit_code' = RESTART_EXIT_CODE =>
                crash_times' = crash_times /\ lpc' = "loop_head"]_vars

\* Six agents were started: one crashed long ago and was forgotten, one asked
\* for a restart, and the fifth crash inside the window ended the loop.
C31_Witness ==
    /\ lpc = "done" /\ ~shutdown_event /\ agentsStarted = 6
    /\ Len(crash_times) = MAX_CRASH_RESTARTS
    /\ launcherNow - crash_times[1] < CRASH_WINDOW_TICKS
    /\ launcherNow >= CRASH_WINDOW_TICKS

\* C32: if every started agent exits with a crash code, the lifecycle loop
\* eventually stops restarting it, whatever time each agent takes to crash, agents
\* that exit before they wrote the port file or answered the health check
\* included.
C32_CrashLoopEnds == <>(lpc = "done")

\* A chat dispatch of the running supervisor is in progress: its thread was
\* started and has not ended.
DispatchInProgress ==
    \E i \in DOMAIN chatThreads : chatThreads[i].st \in {"started", "running"}

\* The step ends a chat dispatch: handle_chat_direct returned or raised.
DispatchEndsStep ==
    \E i \in DOMAIN chatThreads :
        chatThreads[i].st = "running" /\ chatThreads'[i].st = "done"

\* C33: every pause of the background consciousness made for a chat dispatch is
\* followed by a resume when that dispatch ends, and the consciousness is never
\* left paused while no chat dispatch is in progress, a chat thread that could
\* not be started included.
C33_PausedOnlyDuringDispatch ==
    /\ [][DispatchEndsStep =>
             ~server_consciousness_paused' /\ ~colab_consciousness_paused']_vars
    /\ []((server_consciousness_paused \/ colab_consciousness_paused)
              => DispatchInProgress)

\* The step handles an owner /restart that safe_restart refuses.
RestartRefusedStep ==
    /\ HandlingStep /\ StartsWith(Lowered(HandledText), "/restart")
    /\ safe_restart_ok' = "refused"

\* C34: an owner /restart that safe_restart refuses is cancelled without side
\* effects: the persisted session_id is what it was before the command, no
\* worker is killed, and the process neither exits nor re-executes nor asks for
\* a restart.
C34_RefusedRestartHasNoEffect ==
    [][RestartRefusedStep =>
          /\ session_id' = session_id
          /\ workersAlive' = workersAlive /\ kills' = kills
          /\ procExit' = -1 /\ restart_requested' = restart_requested]_vars

\* The message the Colab loop is about to handle (0 when it is about to handle
\* none).
ColabHandledIdx ==
    IF cpc = "updates" /\ cupdates # <<>> THEN Head(cupdates)
    ELSE IF cpc = "wextras" /\ wupdates # <<>> THEN Head(wupdates)
    ELSE 0

\* The Colab loop handles a /panic or a /restart and the process ends with it.
ColabCommandEndsProcess ==
    /\ cpc # "off" /\ procExit = -1 /\ procExit' # -1 /\ ColabHandledIdx # 0

\* The re-executed launcher reads its polling offset from the state file.
ColabReExecutes == cpc # "off" /\ procExit = RE_EXECUTED /\ procExit' = -1

\* C35: when a /restart or /panic taken from the main loop's updates or from a
\* batch window ends the process, the persisted tg_offset (and the offset the
\* process polled with) is greater than the command's update id; the process
\* started afterwards polls from the persisted offset, so it fetches no update
\* the ended process had passed, that command included.
C35_CommandNotFetchedAgain ==
    [][/\ ColabCommandEndsProcess =>
             /\ tg_offset' > UpdateId(ColabHandledIdx)
             /\ offset' = tg_offset'
       /\ ColabReExecutes =>
             /\ offset' = tg_offset
             /\ \A k \in DOMAIN GetUpdates(offset') :
                    UpdateId(GetUpdates(offset')[k]) >= offset]_vars

\* The launcher runs again after a /restart it took from a batch window, and
\* polls from behind that command.
C35_Witness ==
    /\ cpc = "tick" /\ procExit = -1 /\ ownerRestart.accepted
    /\ offset = tg_offset
    /\ \E i \in DOMAIN inbox :
          /\ inbox[i].text = "/restart" /\ inbox[i].viaWindow
          /\ UpdateId(i) = offset - 1

\* C36: during a run of the Colab launcher the polling offset and the persisted
\* tg_offset never decrease, whatever the main loop and the batch windows poll.
C36_OffsetsNeverDecrease ==
    [][(cpc # "off" /\ procExit = -1) =>
          (offset' >= offset /\ tg_offset' >= tg_offset)]_vars

\* The step is one check of the watchdog.
WatchdogCheckStep == watchWake' # watchWake

TickOrder ==
    <<"drain", "enforce_task_timeouts", "enqueue_evolution_task_if_needed",
      "assign_tasks", "persist_queue_snapshot", "get_updates">>

\* The sequence is TickOrder followed by any number of routed messages.
RECURSIVE OrderThenRoutes(_)
OrderThenRoutes(log) ==
    IF Len(log) <= Len(TickOrder) THEN log = TickOrder
    ELSE log[Len(log)] = "route" /\ OrderThenRoutes(SubSeq(log, 1, Len(log) - 1))

\* C38: in every tick that completes, the event bus is drained, then timeouts
\* are enforced, then the evolution task is enqueued if due, then pending
\* tasks are assigned, then the queue snapshot is persisted, and only then
\* owner messages are polled and routed; the snapshot holds the queue as the
\* assignment left it, and events leave the bus only in the drain.
C38_TickStepOrder ==
    [][/\ (tpc = "route" /\ tpc' = "head") => OrderThenRoutes(tickLog)
       /\ (tpc = "poll" /\ tpc' = "route") =>
             /\ snapshotQ = PENDING /\ lastSnapshot = "main_loop"
             /\ updates' = bridgeQ
       /\ Len(eventQ') < Len(eventQ) => tpc = "drain"
       /\ Len(updates') < Len(updates) => tpc = "route"]_vars

\* A tick with evolution mode on that left the queue empty after the assignment
\* and routed one owner message has completed.
C38_Witness ==
    /\ tpc = "head" /\ Len(tickLog) = Len(TickOrder) + 1
    /\ tickLog[Len(tickLog)] = "route"
    /\ snapshotQ = <<>> /\ evolution_mode_enabled

\* The commit tool call of this step ran with the gate switched off: the
\* environment variable is not "1", or the repository has no tests directory.
GateOffCall ==
    /\ CommitCallStep
    /\ gitLast'.gateOff

\* C39: with OUROBOROS_PRE_PUSH_TESTS other than "1" or with no tests directory
\* the gate reports success whatever pytest would have returned: the call does
\* not fail on tests, a commit it made stays on the branch, and the counter of
\* consecutive failures is not incremented.
C39_GateOffNeverReverts ==
    [][GateOffCall =>
          /\ ~gitLast'.tests_failed
          /\ gitResult' # R_TESTS_FAILED
          /\ consecutive_test_failures' <= consecutive_test_failures
          /\ gitLast'.fails = "none" =>
                (head' = head + 1 /\ StartsWithOK(gitResult'))]_vars

\* After two test failures in a row a commit was made with tests asked for and
\* the gate switched off: it is kept and the counter is back at zero.
C39_Witness ==
    /\ gitCalls >= 3 /\ gitLast.fails = "none" /\ ~gitLast.skip_tests
    /\ gitLast.gateOff /\ gitLast.failuresBefore = 2
    /\ head = gitLast.headBefore + 1 /\ gitResult = R_OK
    /\ consecutive_test_failures = 0

====
